---- MODULE Spec2Model ----
(***************************************************************************)
(* MyStory backend: the bearer-token gate, request validation and the      *)
(* book / section handlers over the document store, with the AES cipher    *)
(* and the section model's word-count hook.                                *)
(*                                                                         *)
(* Text is modelled as a sequence of character codes (32 = ' ', 97 = 'a'). *)
(* An optional value (a body field that may be undefined, a query that may *)
(* return null) is a set with at most one element.                         *)
(***************************************************************************)
EXTENDS Integers, Sequences, FiniteSets, TLC

(***************************************************************************)
(* Optional values                                                         *)
(***************************************************************************)
None == {}

Some(v) == {v}

Get(o) == CHOOSE v \in o : TRUE

(***************************************************************************)
(* Strings                                                                 *)
(***************************************************************************)
\* The characters JavaScript's \s and String.prototype.trim treat as blank
\* (restricted to the ASCII ones).
WhiteSpace == {9, 10, 11, 12, 13, 32}

RECURSIVE TrimStart(_)
TrimStart(s) ==
    IF s = <<>> THEN <<>>
    ELSE IF Head(s) \in WhiteSpace THEN TrimStart(Tail(s)) ELSE s

RECURSIVE TrimEnd(_)
TrimEnd(s) ==
    IF s = <<>> THEN <<>>
    ELSE IF s[Len(s)] \in WhiteSpace THEN TrimEnd(SubSeq(s, 1, Len(s) - 1)) ELSE s

\* String.prototype.trim
Trim(s) == TrimEnd(TrimStart(s))

\* String.prototype.startsWith
StartsWith(s, prefix) ==
    /\ Len(s) >= Len(prefix)
    /\ SubSeq(s, 1, Len(prefix)) = prefix

\* s.split(/\s+/): the pieces of s between maximal runs of blanks; a leading or
\* trailing run leaves an empty piece at that end.  cur is the piece being read.
RECURSIVE SplitBlanks(_, _)
SplitBlanks(s, cur) ==
    IF s = <<>> THEN <<cur>>
    ELSE IF Head(s) \in WhiteSpace
         THEN <<cur>> \o SplitBlanks(TrimStart(s), <<>>)
         ELSE SplitBlanks(Tail(s), Append(cur, Head(s)))

\* The count taken from the pieces between single spaces, empty pieces included.
CountPieces(story) ==
    IF Trim(story) = <<>> THEN 0
    ELSE Cardinality({i \in 1..Len(Trim(story)) : Trim(story)[i] = 32}) + 1

\* The word count the section model's pre-save hook derives from a story value.
CountWords(story) ==
    LET trimmedStory == Trim(story)
    IN  IF trimmedStory = <<>> THEN 0
        ELSE Len(SelectSeq(SplitBlanks(trimmedStory, <<>>), LAMBDA word : Len(word) > 0))

(***************************************************************************)
(* EncryptionService: AES-256-CBC with PKCS#7 padding over the configured  *)
(* key and IV, ciphertext as lower-case hex.  The AES block permutation is *)
(* abstracted to a keyed byte substitution chained block to block as CBC   *)
(* chains; padding, block structure and the hex coding are those of the    *)
(* cipher the service builds.                                              *)
(***************************************************************************)
BlockSize == 16

KeyLength == 32

IvLength == 16

\* The configured key and IV: the digits '1234567890...' of the required lengths.
AES_SECRET_KEY == [i \in 1..KeyLength |-> 48 + (i % 10)]

AES_IV == [i \in 1..IvLength |-> 48 + (i % 10)]

\* The key material that position i of the byte stream is substituted under.
RoundKey(key, i) ==
    LET j == ((i - 1) % BlockSize) + 1
    IN  key[j] + key[j + BlockSize]

\* cipher.final(): PKCS#7 padding, always at least one byte, up to a whole block.
Pad(bytes) ==
    LET n == BlockSize - (Len(bytes) % BlockSize)
    IN  bytes \o [i \in 1..n |-> n]

\* The CBC chain over the padded bytes.
CbcEncrypt(key, iv, p) ==
    LET c[i \in 1..Len(p)] ==
            (p[i] + (IF i <= BlockSize THEN iv[i] ELSE c[i - BlockSize])
                  + RoundKey(key, i)) % 256
    IN  [i \in 1..Len(p) |-> c[i]]

CbcDecrypt(key, iv, c) ==
    [i \in 1..Len(c) |->
        (c[i] - (IF i <= BlockSize THEN iv[i] ELSE c[i - BlockSize])
              - RoundKey(key, i)) % 256]

HexChar(n) == IF n < 10 THEN 48 + n ELSE 87 + n

\* The value of a hex digit character, -1 for any other character.
HexValue(ch) ==
    IF ch \in 48..57 THEN ch - 48
    ELSE IF ch \in 97..102 THEN ch - 87
    ELSE IF ch \in 65..70 THEN ch - 55
    ELSE -1

\* Output encoding 'hex': two digits per byte.
ToHex(bytes) ==
    [k \in 1..(2 * Len(bytes)) |->
        IF k % 2 = 1 THEN HexChar(bytes[(k + 1) \div 2] \div 16)
                     ELSE HexChar(bytes[k \div 2] % 16)]

\* Input encoding 'hex': decoding stops at the first pair that is not two hex
\* digits and keeps what was decoded before it.
RECURSIVE FromHex(_)
FromHex(s) ==
    IF Len(s) < 2 \/ HexValue(s[1]) < 0 \/ HexValue(s[2]) < 0 THEN <<>>
    ELSE <<HexValue(s[1]) * 16 + HexValue(s[2])>> \o FromHex(SubSeq(s, 3, Len(s)))

\* crypto.createCipheriv / createDecipheriv take a key of 32 bytes and an IV of
\* 16 bytes and throw for any other.
CipherAccepts(key, iv) == Len(key) = KeyLength /\ Len(iv) = IvLength

\* encrypt under a given key and IV: ok = FALSE stands for the 'Encryption failed'
\* throw.
EncryptWith(key, iv, text) ==
    IF ~CipherAccepts(key, iv) THEN [ok |-> FALSE, text |-> <<>>]
    ELSE [ok |-> TRUE, text |-> ToHex(CbcEncrypt(key, iv, Pad(text)))]

\* decrypt without decipher.final(): what decipher.update returns, which holds
\* back the last block.
DecryptWithoutFinal(key, iv, encryptedText) ==
    LET bytes == FromHex(encryptedText)
    IN  IF ~CipherAccepts(key, iv) THEN [ok |-> FALSE, text |-> <<>>]
        ELSE [ok |-> TRUE,
              text |-> SubSeq(CbcDecrypt(key, iv, bytes), 1,
                              ((Len(bytes) - 1) \div BlockSize) * BlockSize)]

\* decrypt under a given key and IV: ok = FALSE stands for the 'Decryption failed'
\* throw (a key or IV the cipher refuses, no data, a partial final block, or bad
\* padding).
DecryptWith(key, iv, encryptedText) ==
    LET bytes == FromHex(encryptedText)
        plain == CbcDecrypt(key, iv, bytes)
        n     == plain[Len(plain)]
    IN  IF ~CipherAccepts(key, iv) \/ Len(bytes) = 0 \/ Len(bytes) % BlockSize # 0
        THEN [ok |-> FALSE, text |-> <<>>]
        ELSE IF n \notin 1..BlockSize
                \/ \E i \in (Len(plain) - n + 1)..Len(plain) : plain[i] # n
        THEN [ok |-> FALSE, text |-> <<>>]
        ELSE [ok |-> TRUE, text |-> SubSeq(plain, 1, Len(plain) - n)]

\* The service handing the text back as it came.
NotEncrypted(text) == text

\* encryptionService.encrypt of the service built from the configured key and IV
Encrypt(text) == EncryptWith(AES_SECRET_KEY, AES_IV, text).text

\* encryptionService.decrypt of the service built from the configured key and IV
Decrypt(encryptedText) == DecryptWith(AES_SECRET_KEY, AES_IV, encryptedText)

KeyError == "AES_SECRET_KEY must be exactly 32 characters long"

IvError == "AES_IV must be exactly 16 characters long"

\* The service as it is before its module is loaded.
NoService == [state |-> "unloaded", error |-> "", secretKey |-> None, iv |-> None]

\* The constructor with its length checks left out.
ConstructorUnchecked(secretKey, iv) ==
    [state |-> "constructed", error |-> "", secretKey |-> secretKey, iv |-> iv]

\* new EncryptionService() with process.env.AES_SECRET_KEY and process.env.AES_IV
\* as given: the instance, or the error the constructor throws.
Constructor(secretKey, iv) ==
    IF secretKey = None \/ Get(secretKey) = <<>> \/ Len(Get(secretKey)) # KeyLength
    THEN [state |-> "failed", error |-> KeyError, secretKey |-> secretKey, iv |-> iv]
    ELSE IF iv = None \/ Get(iv) = <<>> \/ Len(Get(iv)) # IvLength
    THEN [state |-> "failed", error |-> IvError, secretKey |-> secretKey, iv |-> iv]
    ELSE [state |-> "constructed", error |-> "", secretKey |-> secretKey, iv |-> iv]

\* The placeholder '[Encryption Error]' a handler substitutes for a story that
\* does not decrypt.
EncryptionErrorText ==
    <<91, 69, 110, 99, 114, 121, 112, 116, 105, 111, 110, 32, 69, 114, 114, 111, 114, 93>>

\* A handler that forgets to decrypt and returns the stored value.
StoredAsIs(stored) == stored

\* The story a handler puts in a response for a stored ciphertext.
DecryptOrPlaceholder(stored) ==
    IF Decrypt(stored).ok THEN Decrypt(stored).text ELSE EncryptionErrorText

(***************************************************************************)
(* JWTService.  A token is the string of its three parts: the subject, the *)
(* expiry time and the signature over both under the signing secret.  Time *)
(* is counted in days.                                                     *)
(***************************************************************************)
JWT_SECRET == 11

JWT_EXPIRES_IN == 7

\* The signature jwt.sign puts on a payload under a secret.
Sign(userId, exp, secret) == (userId * 31 + exp * 7 + secret * 3) % 251

\* jwtService.generateToken at time issuedAt under the configured secret
GenerateToken(userId, issuedAt, secret) ==
    <<userId, issuedAt + JWT_EXPIRES_IN, Sign(userId, issuedAt + JWT_EXPIRES_IN, secret)>>

\* verifyToken with the expiry left unchecked (ignoreExpiration).
VerifyTokenIgnoringExpiry(token, time, secret) ==
    IF Len(token) = 3 /\ token[3] = Sign(token[1], token[2], secret)
    THEN [ok |-> TRUE, userId |-> token[1]]
    ELSE [ok |-> FALSE, userId |-> 0]

\* jwtService.verifyToken: ok = FALSE stands for the 'Invalid or expired token' throw.
VerifyToken(token, time, secret) ==
    IF /\ Len(token) = 3
       /\ token[3] = Sign(token[1], token[2], secret)
       /\ time < token[2]
    THEN [ok |-> TRUE, userId |-> token[1]]
    ELSE [ok |-> FALSE, userId |-> 0]

\* 'Bearer '
BearerPrefix == <<66, 101, 97, 114, 101, 114, 32>>

\* jwtService.extractTokenFromHeader: ok = FALSE stands for the throw.
ExtractTokenFromHeader(authHeader) ==
    IF authHeader = None \/ Get(authHeader) = <<>>
       \/ ~StartsWith(Get(authHeader), BearerPrefix)
    THEN [ok |-> FALSE, token |-> <<>>]
    ELSE [ok |-> TRUE,
          token |-> SubSeq(Get(authHeader), Len(BearerPrefix) + 1, Len(Get(authHeader)))]

(***************************************************************************)
(* Responses                                                               *)
(***************************************************************************)
\* res.status(status).json({success, message, count, data}); data is a book or
\* a list of books (books), a section or a list of sections (sections), or both.
Response(status, success, message, count, bookList, sectionList) ==
    [status |-> status, success |-> success, message |-> message,
     count |-> count, books |-> bookList, sections |-> sectionList]

Failure(status, message) == Response(status, FALSE, message, None, <<>>, <<>>)

\* No response sent yet.
NoResponse == Response(0, FALSE, "", None, <<>>, <<>>)

(***************************************************************************)
(* authenticateToken, in its two synchronous stretches: up to the user     *)
(* lookup, and after it.  Each yields the responses it sends, the number   *)
(* of times it calls next(), and what it leaves in req.user.               *)
(***************************************************************************)
\* From entry to `await User.findById(decoded.userId)`; lookup holds the subject
\* to look up when the stretch gets that far.
AuthBeforeLookup(authHeader, time) ==
    IF authHeader = None \/ Get(authHeader) = <<>>
    THEN [sent |-> <<Failure(401, "Access token required")>>, lookup |-> None]
    ELSE LET extracted == ExtractTokenFromHeader(authHeader)
             decoded   == VerifyToken(extracted.token, time, JWT_SECRET)
         IN  IF ~extracted.ok \/ ~decoded.ok
             THEN [sent |-> <<Failure(401, "Invalid or expired token")>>, lookup |-> None]
             ELSE [sent |-> <<>>, lookup |-> Some(decoded.userId)]

\* .select('-password')
WithoutPassword(user) == [_id |-> user._id, email |-> user.email]

\* The gate with the `return` of its 'User not found' branch missing.
AuthAfterLookupFallsThrough(found, threw) ==
    IF threw
    THEN [sent |-> <<Failure(401, "Invalid or expired token")>>, nextCalls |-> 0, user |-> None]
    ELSE IF found = None
    THEN [sent |-> <<Failure(401, "User not found")>>, nextCalls |-> 1, user |-> None]
    ELSE [sent |-> <<>>, nextCalls |-> 1, user |-> Some(WithoutPassword(Get(found)))]

\* From the lookup's outcome on: found is the user the store returned, if any;
\* threw says that the lookup failed instead of returning.
AuthAfterLookup(found, threw) ==
    IF threw
    THEN [sent |-> <<Failure(401, "Invalid or expired token")>>, nextCalls |-> 0, user |-> None]
    ELSE IF found = None
    THEN [sent |-> <<Failure(401, "User not found")>>, nextCalls |-> 0, user |-> None]
    ELSE [sent |-> <<>>, nextCalls |-> 1, user |-> Some(WithoutPassword(Get(found)))]

(***************************************************************************)
(* Request validation (express-validator chains ending in                  *)
(* handleValidationErrors)                                                 *)
(***************************************************************************)
\* body(field).trim(): an absent field is checked as the empty string.
Trimmed(field) == IF field = None THEN <<>> ELSE Trim(Get(field))

\* .isLength({ min, max }) on the trimmed value
LengthWithin(field, min, max) ==
    Len(Trimmed(field)) >= min /\ Len(Trimmed(field)) <= max

MaxTitleLength == 200

\* bookValidation: the messages of the checks that fail
BookValidationErrors(body) ==
    IF LengthWithin(body.title, 1, MaxTitleLength) THEN {}
    ELSE {"Book title must be between 1 and 200 characters"}

\* sectionValidation: the messages of the checks that fail
SectionValidationErrors(body) ==
    (IF LengthWithin(body.title, 1, MaxTitleLength) THEN {}
     ELSE {"Section title must be between 1 and 200 characters"})
    \cup
    (IF Len(Trimmed(body.story)) >= 1 THEN {}
     ELSE {"Story content cannot be empty"})

\* The sanitizers of a chain write the trimmed value back into req.body.
SanitizeTitle(body) ==
    [body EXCEPT !.title = IF body.title = None THEN None ELSE Some(Trim(Get(body.title)))]

SanitizeSection(body) ==
    [SanitizeTitle(body) EXCEPT
        !.story = IF body.story = None THEN None ELSE Some(Trim(Get(body.story)))]

\* The book routes with no validation chain mounted.
NoValidation(op, body) == {}

\* The book routes: the validation chain mounted before each handler.
ValidationErrors(op, body) ==
    IF op \in {"createBook", "updateBook"} THEN BookValidationErrors(body)
    ELSE IF op \in {"addSection", "updateSection"} THEN SectionValidationErrors(body)
    ELSE {}

Sanitized(op, body) ==
    IF op \in {"createBook", "updateBook"} THEN SanitizeTitle(body)
    ELSE IF op \in {"addSection", "updateSection"} THEN SanitizeSection(body)
    ELSE body

\* The first store call of each handler.
FirstAwait(op) ==
    IF op = "getBooks" THEN "getBooks_find"
    ELSE IF op = "createBook" THEN "createBook_save"
    ELSE "findBook"

(***************************************************************************)
(* Bounds and the requests the clients send                                *)
(***************************************************************************)
\* The number of books and of sections ever created.
MaxBooks == 2

MaxSections == 2

\* The number of requests served in a run.
MaxRequests == 4

\* The requests in flight at once.
MaxInFlight == 2

Slots == 1..MaxInFlight

BookIds == 1..MaxBooks

SectionIds == 1..MaxSections

\* The registered users; the store has no user with the id UnknownUserId.
RegisteredUsers ==
    {[_id |-> 1, email |-> "a@x.com", password |-> "hashA"],
     [_id |-> 2, email |-> "b@x.com", password |-> "hashB"]}

UnknownUserId == Cardinality(RegisteredUsers) + 1

\* A secret other than the configured one.
ForgedSecret == JWT_SECRET + 2

Bearer(token) == Some(BearerPrefix \o token)

\* Headers that carry a fresh token of a registered user.
GoodHeaders == {Bearer(GenerateToken(u._id, 0, JWT_SECRET)) : u \in RegisteredUsers}

\* Absent, empty, 'Token x', 'Bearer ' alone, a token of an unknown user, an
\* expired token, a token signed with another secret, and a malformed token.
BadHeaders ==
    {None, Some(<<>>), Some(<<84, 111, 107, 101, 110, 32, 120>>), Some(BearerPrefix),
     Bearer(GenerateToken(UnknownUserId, 0, JWT_SECRET)),
     Bearer(GenerateToken(1, 0 - JWT_EXPIRES_IN, JWT_SECRET)),
     Bearer(GenerateToken(1, 0, ForgedSecret)),
     Bearer(<<120>>)}

TitleA == <<65>>

TitleB == <<66>>

StoryA == <<97>>

\* ' a  b', which validation trims to 'a  b'
StoryAB == <<32, 97, 32, 32, 98>>

EmptyBody ==
    [title |-> None, description |-> None, isPublished |-> None,
     story |-> None, order |-> None]

Request(op, header, bookId, sectionId, body) ==
    [op |-> op, header |-> header, bookId |-> bookId, sectionId |-> sectionId,
     body |-> body]

\* The bodies that pass validation: new documents are titled 'A'; an update may
\* retitle to ' B' (trimmed by validation), publish a book, and give a section
\* an order of -1 or 2.
CreateBookBodies == {[EmptyBody EXCEPT !.title = Some(TitleA)]}

UpdateBookBodies ==
    {[EmptyBody EXCEPT !.title = t, !.isPublished = p] :
        t \in {Some(TitleA), Some(<<32>> \o TitleB)}, p \in {None, Some(TRUE)}}

AddSectionBodies ==
    {[EmptyBody EXCEPT !.title = Some(TitleA), !.story = Some(st)] : st \in {StoryA, StoryAB}}

UpdateSectionBodies ==
    {[EmptyBody EXCEPT !.title = t, !.story = Some(st), !.order = o] :
        t \in {Some(TitleA), Some(<<32>> \o TitleB)}, st \in {StoryA, StoryAB},
        o \in {None, Some(-1), Some(2)}}

\* Bodies that fail validation: no title, a blank title, no story, a blank story.
InvalidBookBodies == {EmptyBody, [EmptyBody EXCEPT !.title = Some(<<32>>)]}

InvalidSectionBodies ==
    {[EmptyBody EXCEPT !.story = Some(StoryA)],
     [EmptyBody EXCEPT !.title = Some(TitleA)],
     [EmptyBody EXCEPT !.title = Some(TitleA), !.story = Some(<<32>>)],
     [EmptyBody EXCEPT !.title = Some(TitleA), !.order = Some(1)]}

\* The requests with Authorization header h whose bodies are among the given ones.
RequestsWith(h, bookIds, sectionIds, createBook, updateBook, addSection, updateSection) ==
    {Request("getBooks", h, 0, 0, EmptyBody)}
    \cup {Request(op, h, b, 0, EmptyBody) :
            op \in {"getBook", "deleteBook", "getBookSections"}, b \in bookIds}
    \cup {Request("createBook", h, 0, 0, body) : body \in createBook}
    \cup {Request("updateBook", h, b, 0, body) : b \in bookIds, body \in updateBook}
    \cup {Request(op, h, b, s, EmptyBody) :
            op \in {"getSection", "deleteSection"}, b \in bookIds, s \in sectionIds}
    \cup {Request("addSection", h, b, 0, body) : b \in bookIds, body \in addSection}
    \cup {Request("updateSection", h, b, s, body) :
            b \in bookIds, s \in sectionIds, body \in updateSection}

\* Every valid request of each registered user; with an invalid body, and with a
\* header the gate rejects, the requests on book 1 and section 1.
Requests ==
    UNION {RequestsWith(h, BookIds, SectionIds, CreateBookBodies, UpdateBookBodies,
                        AddSectionBodies, UpdateSectionBodies) : h \in GoodHeaders}
    \cup UNION {RequestsWith(h, {1}, {1}, InvalidBookBodies, InvalidBookBodies,
                             InvalidSectionBodies, InvalidSectionBodies) : h \in GoodHeaders}
    \cup UNION {RequestsWith(h, {1}, {1}, CreateBookBodies \cup InvalidBookBodies, {EmptyBody},
                             AddSectionBodies, {EmptyBody}) : h \in BadHeaders}

\* The requests sent concurrently: those of the registered users on book 1 and
\* section 1, with one body for each route.
RaceRequests ==
    UNION {RequestsWith(h, {1}, {1}, CreateBookBodies,
                        {[EmptyBody EXCEPT !.title = Some(TitleB)]},
                        {[EmptyBody EXCEPT !.title = Some(TitleA), !.story = Some(StoryA)]},
                        {[EmptyBody EXCEPT !.title = Some(TitleA), !.story = Some(StoryAB)]}) :
           h \in GoodHeaders}

(***************************************************************************)
(* State                                                                   *)
(***************************************************************************)
VARIABLES
    users,          \* the User collection
    books,          \* the Book collection
    sections,       \* the Section collection
    nextBookId,     \* the next fresh book id
    nextSectionId,  \* the next fresh section id
    now,            \* the time, in days
    pc,             \* per request slot: the await the request stands at
    req,            \* per request slot: the request (req.headers, req.params, req.body)
    loc,            \* per request slot: req.user and the handler's local variables
    resp,           \* per request slot: the response sent
    served,         \* the number of requests received so far
    written,        \* history: per section, the last story a handler was given for it
    cipher,         \* the EncryptionService instance, or the error of its constructor
    call,           \* the last call of a cipher method made on its own, with its result
    secret,         \* process.env.JWT_SECRET
    issued,         \* history: the tokens generateToken returned, and for whom and when
    jwtCall,        \* the last call of a JWTService method made on its own, with its result
    limits,         \* the hit counts of the two rate limiters, per client IP
    minute,         \* the time of the rate limiters, in minutes
    authReq,        \* the last request to /api/auth, with its response
    authCount       \* the number of requests to /api/auth so far

vars ==
    <<users, books, sections, nextBookId, nextSectionId, now, pc, req, loc, resp,
      served, written, cipher, call, secret, issued, jwtCall,
      limits, minute, authReq, authCount>>

\* The requests in flight and their history.
requests == <<pc, req, loc, resp, served, written>>

cipherVars == <<cipher, call>>

tokenVars == <<secret, issued, jwtCall>>

limiterVars == <<limits, minute, authReq, authCount>>

\* The services as the request handlers leave them.
services == <<cipherVars, tokenVars, limiterVars>>

store == <<users, books, sections, nextBookId, nextSectionId, now>>

NoRequest == Request("none", None, 0, 0, EmptyBody)

\* No service method called yet.  op: the method; input: its argument; result:
\* what it returned or that it threw; plain: for a decrypt, the text whose
\* ciphertext the argument is, when it is one.
NoCall == [op |-> "none", input |-> <<>>, result |-> [ok |-> FALSE, text |-> <<>>],
           plain |-> None]

\* The limit and the window of the limiter mounted on /api/auth, and the limit
\* of the limiter of the register and login routes when the environment sets
\* none and when it sets that of the example environment.
RateLimitMax == 5

WindowMinutes == 15

DefaultRouteMax == 5

ExampleRouteMax == 100

ClientIps == {"10.0.0.1", "10.0.0.2"}

\* The entry of a key the store of a limiter has not seen: no hit, no window.
NoEntry == [hits |-> 0, authHits |-> 0, resetAt |-> 0]

\* Both limiters before any request; routeMax is the limit of the route limiter.
NoHits(routeMax) ==
    [app |-> [ip \in ClientIps |-> NoEntry], route |-> [ip \in ClientIps |-> NoEntry],
     routeMax |-> routeMax]

\* No request to /api/auth yet.
NoAuthRequest ==
    [ip |-> "", route |-> "none", status |-> 0, message |-> "", reachedHandler |-> FALSE]

\* No JWTService method called yet.  op: the method; header, token, userId: its
\* argument; time, secret: the time and the configured secret at the call;
\* result: what it returned (a token, or the decoded subject) or that it threw.
NoJwtCall ==
    [op |-> "none", header |-> None, token |-> <<>>, userId |-> 0, time |-> 0, secret |-> 0,
     result |-> [ok |-> FALSE, token |-> <<>>, userId |-> 0]]

\* subject: decoded.userId; lookupThrew: the user lookup of the gate threw; user:
\* req.user; nextCalls / gateResponses: how often the gate called next() / sent a
\* response; fault: a store call of the handler failed; book: the book of the
\* ownership check; loaded: the document as a query returned it; doc: the
\* document in memory; deletedCount: what deleteMany reported, once it returned.
NoLocals ==
    [subject |-> 0, lookupThrew |-> FALSE, user |-> None, nextCalls |-> 0,
     gateResponses |-> 0, fault |-> FALSE, book |-> None, loaded |-> None, doc |-> None,
     deletedCount |-> None]

Init ==
    /\ users = RegisteredUsers
    /\ books = {}
    /\ sections = {}
    /\ nextBookId = 1
    /\ nextSectionId = 1
    /\ now = 0
    /\ pc = [r \in Slots |-> "idle"]
    /\ req = [r \in Slots |-> NoRequest]
    /\ loc = [r \in Slots |-> NoLocals]
    /\ resp = [r \in Slots |-> NoResponse]
    /\ served = 0
    /\ written = [s \in SectionIds |-> None]
    /\ cipher = Constructor(Some(AES_SECRET_KEY), Some(AES_IV))
    /\ call = NoCall
    /\ secret = JWT_SECRET
    /\ issued = {}
    /\ jwtCall = NoJwtCall
    /\ limits = NoHits(DefaultRouteMax)
    /\ minute = 0
    /\ authReq = NoAuthRequest
    /\ authCount = 0

\* The handler of slot r sends its response and returns.
Reply(r, response) ==
    /\ resp' = [resp EXCEPT ![r] = response]
    /\ pc' = [pc EXCEPT ![r] = "done"]

\* The handler of slot r goes on to its next store call.
Goto(r, label) ==
    /\ pc' = [pc EXCEPT ![r] = label]
    /\ UNCHANGED resp

\* The message of the 500 response of each handler's catch block.
FailureMessage(op) ==
    CASE op = "getBooks" -> "Failed to fetch books"
      [] op = "getBook" -> "Failed to fetch book"
      [] op = "createBook" -> "Failed to create book"
      [] op = "updateBook" -> "Failed to update book"
      [] op = "deleteBook" -> "Failed to delete book"
      [] op = "getBookSections" -> "Failed to fetch book sections"
      [] op = "getSection" -> "Failed to fetch section"
      [] op = "addSection" -> "Failed to add section"
      [] op = "updateSection" -> "Failed to update section"
      [] op = "deleteSection" -> "Failed to delete section"

\* The catch block of the handler of slot r answers 500.
Catch(r) ==
    /\ Reply(r, Failure(500, FailureMessage(req[r].op)))
    /\ UNCHANGED <<req, store, written>>

\* A store call of the handler of slot r fails (the store is down, the connection
\* drops) and throws.
Fault(r) ==
    /\ Catch(r)
    /\ loc' = [loc EXCEPT ![r].fault = TRUE]

\* The handler of slot r throws on its own account (a value it cannot use, a
\* document the schema rejects).
Throw(r) ==
    /\ Catch(r)
    /\ UNCHANGED loc

(***************************************************************************)
(* The gate and the validation chain                                       *)
(***************************************************************************)
\* A request arrives on a free slot and authenticateToken runs up to its lookup.
Receive(r, q) ==
    /\ pc[r] = "idle"
    /\ served < MaxRequests
    /\ served' = served + 1
    /\ req' = [req EXCEPT ![r] = q]
    /\ LET gate == AuthBeforeLookup(q.header, now)
       IN  IF gate.lookup = None
           THEN /\ Reply(r, gate.sent[Len(gate.sent)])
                /\ loc' = [loc EXCEPT ![r] = [NoLocals EXCEPT !.gateResponses = Len(gate.sent)]]
           ELSE /\ Goto(r, "auth_findUser")
                /\ loc' = [loc EXCEPT ![r] = [NoLocals EXCEPT !.subject = Get(gate.lookup)]]
    /\ UNCHANGED <<store, written, services>>

\* User.findById
FindUserById(id) == {u \in users : u._id = id}

\* The lookup of the gate returns or throws; on next() the validation chain of
\* the route runs and then the handler, up to its first store call.
AuthFindUser(r) ==
    /\ pc[r] = "auth_findUser"
    /\ \E threw \in BOOLEAN :
        LET gate   == AuthAfterLookup(IF threw THEN None ELSE FindUserById(loc[r].subject), threw)
            errors == ValidationErrors(req[r].op, req[r].body)
            locals == [loc[r] EXCEPT !.lookupThrew = threw, !.user = gate.user,
                                     !.nextCalls = gate.nextCalls,
                                     !.gateResponses = Len(gate.sent)]
        IN  /\ loc' = [loc EXCEPT ![r] = locals]
            /\ IF gate.nextCalls = 0
               THEN /\ Reply(r, gate.sent[Len(gate.sent)])
                    /\ UNCHANGED req
               ELSE IF errors # {}
               THEN /\ Reply(r, Failure(400, "Validation failed"))
                    /\ req' = [req EXCEPT ![r].body = Sanitized(req[r].op, req[r].body)]
               ELSE /\ pc' = [pc EXCEPT ![r] = FirstAwait(req[r].op)]
                    /\ resp' = [resp EXCEPT ![r] =
                                  IF gate.sent = <<>> THEN NoResponse
                                  ELSE gate.sent[Len(gate.sent)]]
                    /\ req' = [req EXCEPT ![r].body = Sanitized(req[r].op, req[r].body)]
    /\ UNCHANGED <<store, served, written, services>>

\* The response has been delivered; the slot is free again.
Finish(r) ==
    /\ pc[r] = "done"
    /\ pc' = [pc EXCEPT ![r] = "idle"]
    /\ req' = [req EXCEPT ![r] = NoRequest]
    /\ loc' = [loc EXCEPT ![r] = NoLocals]
    /\ resp' = [resp EXCEPT ![r] = NoResponse]
    /\ UNCHANGED <<store, served, written, services>>

(***************************************************************************)
(* Documents and queries                                                   *)
(***************************************************************************)
\* The ownership check without its user filter.
BookOfAnyUser(bookId, userId) == {b \in books : b._id = bookId}

\* Book.findOne({ _id: bookId, user: req.user._id })
OwnedBook(bookId, userId) == {b \in books : b._id = bookId /\ b.user = userId}

\* The query without its user filter.
BooksOfAnyUser(userId) == books

\* Book.find({ user: req.user._id })
BooksOf(userId) == {b \in books : b.user = userId}

\* Section.find({ book: bookId })
SectionsOf(bookId) == {s \in sections : s.book = bookId}

\* The section looked up by its id alone.
SectionOfAnyBook(sectionId, bookId) == {s \in sections : s._id = sectionId}

\* Section.findOne({ _id: sectionId, book: bookId })
SectionOfBook(sectionId, bookId) ==
    {s \in sections : s._id = sectionId /\ s.book = bookId}

\* .sort({ createdAt: -1 })
RECURSIVE NewestFirst(_)
NewestFirst(docs) ==
    IF docs = {} THEN <<>>
    ELSE LET first == CHOOSE d \in docs : \A e \in docs : e.createdAt <= d.createdAt
         IN  <<first>> \o NewestFirst(docs \ {first})

\* A sort by creation time alone.
CreatedBefore(a, b) == a.createdAt <= b.createdAt

\* .sort({ order: 1, createdAt: 1 })
ListedBefore(a, b) ==
    a.order < b.order \/ (a.order = b.order /\ a.createdAt <= b.createdAt)

RECURSIVE ByOrder(_)
ByOrder(docs) ==
    IF docs = {} THEN <<>>
    ELSE LET first == CHOOSE d \in docs : \A e \in docs : ListedBefore(d, e)
         IN  <<first>> \o ByOrder(docs \ {first})

\* The order of a new section without the increment.
NextOrderOfLast(bookSections) ==
    IF bookSections = {} THEN 1
    ELSE LET lastSection == CHOOSE d \in bookSections :
                                \A e \in bookSections : e.order <= d.order
         IN  lastSection.order

\* The order of a new section taken from the number of sections of the book.
NextOrderByCount(bookSections) == Cardinality(bookSections) + 1

\* The order of a new section: that of the book's section of highest order plus
\* one, and 1 for a book without sections.
NextOrder(bookSections) ==
    IF bookSections = {} THEN 1
    ELSE LET lastSection == CHOOSE d \in bookSections :
                                \A e \in bookSections : e.order <= d.order
         IN  lastSection.order + 1

\* section.toObject() with its story replaced
WithStory(section, story) == [section EXCEPT !.story = story]

\* The paths of a loaded document that were assigned another value.
ModifiedPaths(loaded, doc) == {f \in DOMAIN doc : doc[f] # loaded[f]}

\* An update that leaves the order of the stored document as it is.
UpdateOfKeepingOrder(current, loaded, doc) ==
    [f \in DOMAIN current |->
        IF f \in ModifiedPaths(loaded, doc) \ {"order"} THEN doc[f] ELSE current[f]]

\* An update writes the modified paths, and only those, to the stored document.
UpdateOf(current, loaded, doc) ==
    [f \in DOMAIN current |-> IF f \in ModifiedPaths(loaded, doc) THEN doc[f] ELSE current[f]]

\* sectionSchema.pre('save'): the word count follows the story field as it stands
\* in the document when the story was modified.
PreSave(doc, storyModified) ==
    IF storyModified THEN [doc EXCEPT !.wordCount = CountWords(doc.story)] ELSE doc

\* The schema of a section without the minimum of its order.
SectionSchemaErrorsWithoutMin(doc) ==
    (IF doc.title = <<>> THEN {"Section title is required"} ELSE {})
    \cup (IF Len(doc.title) > MaxTitleLength
          THEN {"Title cannot be more than 200 characters"} ELSE {})

\* The schema validators of a section: the messages of those that fail.
SectionSchemaErrors(doc) ==
    (IF doc.title = <<>> THEN {"Section title is required"} ELSE {})
    \cup (IF Len(doc.title) > MaxTitleLength
          THEN {"Title cannot be more than 200 characters"} ELSE {})
    \cup (IF doc.order < 0 THEN {"Order cannot be negative"} ELSE {})

\* The schema validators of a book: the messages of those that fail.
MaxDescriptionLength == 1000

BookSchemaErrors(doc) ==
    (IF doc.title = <<>> THEN {"Book title is required"} ELSE {})
    \cup (IF Len(doc.title) > MaxTitleLength
          THEN {"Book title cannot exceed 200 characters"} ELSE {})
    \cup (IF doc.description # None /\ Len(Get(doc.description)) > MaxDescriptionLength
          THEN {"Description cannot exceed 1000 characters"} ELSE {})

\* The index declared unique: an insert is refused when a section of the book
\* already carries the order.
UniqueIndexRefuses(section) ==
    \E s \in sections : s.book = section.book /\ s.order = section.order

\* sectionSchema.index({ book: 1, order: 1 }) is not a unique index: an insert is
\* never refused for the order it carries.
IndexRefuses(section) == FALSE

\* new Book({ title, description, user }): the schema trims and sets the defaults.
NewBook(id, title, description, userId) ==
    [_id |-> id, user |-> userId, title |-> Trimmed(title),
     description |-> IF description = None THEN None ELSE Some(Trim(Get(description))),
     isPublished |-> FALSE, createdAt |-> id]

\* new Section({ title, story, book, order })
NewSection(id, title, story, bookId, order) ==
    [_id |-> id, book |-> bookId, title |-> Trimmed(title), story |-> Trim(story),
     order |-> order, wordCount |-> 0, createdAt |-> id]

(***************************************************************************)
(* Book handlers                                                           *)
(***************************************************************************)
\* getBooks
GetBooksFind(r) ==
    /\ pc[r] = "getBooks_find"
    /\ \/ Fault(r)
       \/ /\ LET found == NewestFirst(BooksOf(Get(loc[r].user)._id))
             IN  Reply(r, Response(200, TRUE, "", Some(Len(found)), found, <<>>))
          /\ UNCHANGED <<req, loc, store, written>>
    /\ UNCHANGED <<served, services>>

\* createBook
CreateBookSave(r) ==
    /\ pc[r] = "createBook_save"
    /\ nextBookId <= MaxBooks
    /\ \/ Fault(r)
       \/ LET book == NewBook(nextBookId, req[r].body.title, req[r].body.description,
                              Get(loc[r].user)._id)
          IN  IF BookSchemaErrors(book) # {}
              THEN Throw(r)
              ELSE /\ books' = books \cup {book}
                   /\ nextBookId' = nextBookId + 1
                   /\ Reply(r, Response(201, TRUE, "Book created successfully", None,
                                        <<book>>, <<>>))
                   /\ loc' = [loc EXCEPT ![r].doc = Some(book)]
                   /\ UNCHANGED <<req, users, sections, nextSectionId, now, written>>
    /\ UNCHANGED <<served, services>>

\* The ownership check every other handler starts with, and what the handler
\* does with the book up to its next store call.
FindBook(r) ==
    /\ pc[r] = "findBook"
    /\ \/ Fault(r)
       \/ /\ LET found == OwnedBook(req[r].bookId, Get(loc[r].user)._id)
                 book  == Get(found)
                 body  == req[r].body
                 op    == req[r].op
             IN  IF found = {}
                 THEN /\ Reply(r, Failure(404, "Book not found"))
                      /\ UNCHANGED loc
                 ELSE IF op = "getBook"
                 THEN /\ Reply(r, Response(200, TRUE, "", None, <<book>>, <<>>))
                      /\ loc' = [loc EXCEPT ![r].book = found]
                 ELSE IF op = "updateBook"
                 THEN /\ Goto(r, "updateBook_save")
                      /\ loc' = [loc EXCEPT
                            ![r].book = found,
                            ![r].loaded = found,
                            ![r].doc = Some([book EXCEPT
                                !.title = IF body.title # None
                                          THEN Trim(Get(body.title)) ELSE @,
                                !.description = IF body.description # None
                                                THEN Some(Trim(Get(body.description))) ELSE @,
                                !.isPublished = IF body.isPublished # None
                                                THEN Get(body.isPublished) ELSE @])]
                 ELSE /\ Goto(r, CASE op = "deleteBook" -> "deleteBook_deleteSections"
                                   [] op = "getBookSections" -> "getBookSections_find"
                                   [] op = "addSection" -> "addSection_findLast"
                                   [] OTHER -> "findSection")
                      /\ loc' = [loc EXCEPT ![r].book = found]
          /\ UNCHANGED <<req, store, written>>
    /\ UNCHANGED <<served, services>>

\* updateBook: book.save()
UpdateBookSave(r) ==
    /\ pc[r] = "updateBook_save"
    /\ \/ Fault(r)
       \/ LET loaded  == Get(loc[r].loaded)
              doc     == Get(loc[r].doc)
              current == {b \in books : b._id = doc._id}
          IN  IF ModifiedPaths(loaded, doc) # {}
                 /\ (BookSchemaErrors(doc) # {} \/ current = {})
              THEN Throw(r)
              ELSE /\ books' = IF ModifiedPaths(loaded, doc) = {} THEN books
                               ELSE (books \ current)
                                    \cup {UpdateOf(Get(current), loaded, doc)}
                   /\ Reply(r, Response(200, TRUE, "Book updated successfully", None,
                                        <<doc>>, <<>>))
                   /\ UNCHANGED <<req, loc, users, sections, nextBookId, nextSectionId,
                                  now, written>>
    /\ UNCHANGED <<served, services>>

\* deleteBook without its cascade: the sections of the book are left in the store.
DeleteBookSectionsSkipped(r) ==
    /\ pc[r] = "deleteBook_deleteSections"
    /\ \/ Fault(r)
       \/ /\ Goto(r, "deleteBook_deleteBook")
          /\ loc' = [loc EXCEPT ![r].deletedCount = Some(0)]
          /\ UNCHANGED <<req, store, written>>
    /\ UNCHANGED <<served, services>>

\* deleteBook: Section.deleteMany({ book: bookId })
DeleteBookSections(r) ==
    /\ pc[r] = "deleteBook_deleteSections"
    /\ \/ Fault(r)
       \/ /\ sections' = sections \ SectionsOf(req[r].bookId)
          /\ loc' = [loc EXCEPT ![r].deletedCount =
                                    Some(Cardinality(SectionsOf(req[r].bookId)))]
          /\ Goto(r, "deleteBook_deleteBook")
          /\ UNCHANGED <<req, users, books, nextBookId, nextSectionId, now, written>>
    /\ UNCHANGED <<served, services>>

\* deleteBook: Book.findByIdAndDelete(bookId)
DeleteBookBook(r) ==
    /\ pc[r] = "deleteBook_deleteBook"
    /\ \/ Fault(r)
       \/ /\ books' = {b \in books : b._id # req[r].bookId}
          /\ Reply(r, Response(200, TRUE, "Book and all its sections deleted successfully",
                               None, <<>>, <<>>))
          /\ UNCHANGED <<req, loc, users, sections, nextBookId, nextSectionId, now, written>>
    /\ UNCHANGED <<served, services>>

(***************************************************************************)
(* Section handlers                                                        *)
(***************************************************************************)
\* getBookSections with one try around the whole listing: a story that does not
\* decrypt lands in the catch block of the handler.
GetBookSectionsFindAllOrNothing(r) ==
    /\ pc[r] = "getBookSections_find"
    /\ \/ Fault(r)
       \/ LET found == ByOrder(SectionsOf(req[r].bookId))
              decryptedSections ==
                  [i \in 1..Len(found) |-> WithStory(found[i], Decrypt(found[i].story).text)]
          IN  IF \E i \in 1..Len(found) : ~Decrypt(found[i].story).ok
              THEN Throw(r)
              ELSE /\ Reply(r, Response(200, TRUE, "", Some(Len(decryptedSections)),
                                        <<Get(loc[r].book)>>, decryptedSections))
                   /\ UNCHANGED <<req, loc, store, written>>
    /\ UNCHANGED <<served, services>>

\* getBookSections: Section.find({ book: bookId }).sort(...), each story decrypted
\* on its own.
GetBookSectionsFind(r) ==
    /\ pc[r] = "getBookSections_find"
    /\ \/ Fault(r)
       \/ /\ LET found == ByOrder(SectionsOf(req[r].bookId))
                 decryptedSections ==
                     [i \in 1..Len(found) |->
                         WithStory(found[i], DecryptOrPlaceholder(found[i].story))]
             IN  Reply(r, Response(200, TRUE, "", Some(Len(decryptedSections)),
                                   <<Get(loc[r].book)>>, decryptedSections))
          /\ UNCHANGED <<req, loc, store, written>>
    /\ UNCHANGED <<served, services>>

\* getSection, updateSection, deleteSection: the section lookup, and what the
\* handler does with the section up to its next store call.
FindSection(r) ==
    /\ pc[r] = "findSection"
    /\ \/ Fault(r)
       \/ /\ LET found   == SectionOfBook(req[r].sectionId, req[r].bookId)
                 section == Get(found)
                 body    == req[r].body
                 op      == req[r].op
             IN  IF found = {}
                 THEN /\ Reply(r, Failure(404, "Section not found"))
                      /\ UNCHANGED loc
                 ELSE IF op = "getSection"
                 THEN /\ Reply(r, Response(200, TRUE, "", None, <<>>,
                                 <<WithStory(section, DecryptOrPlaceholder(section.story))>>))
                      /\ loc' = [loc EXCEPT ![r].loaded = found]
                 ELSE IF op = "updateSection"
                 THEN /\ Goto(r, "updateSection_save")
                      /\ loc' = [loc EXCEPT
                            ![r].loaded = found,
                            ![r].doc = Some([section EXCEPT
                                !.title = IF body.title # None
                                          THEN Trim(Get(body.title)) ELSE @,
                                !.story = IF body.story # None
                                          THEN Trim(Encrypt(Get(body.story))) ELSE @,
                                !.order = IF body.order # None
                                          THEN Get(body.order) ELSE @])]
                 ELSE /\ Goto(r, "deleteSection_delete")
                      /\ loc' = [loc EXCEPT ![r].loaded = found]
          /\ UNCHANGED <<req, store, written>>
    /\ UNCHANGED <<served, services>>

\* addSection: the last section of the book, the order of the new one, and the
\* new document with its story encrypted.
AddSectionFindLast(r) ==
    /\ pc[r] = "addSection_findLast"
    /\ \/ Fault(r)
       \/ /\ IF req[r].body.story = None
             THEN Throw(r)
             ELSE /\ Goto(r, "addSection_save")
                  /\ loc' = [loc EXCEPT ![r].doc =
                        Some(NewSection(0, req[r].body.title,
                                        Encrypt(Get(req[r].body.story)), req[r].bookId,
                                        NextOrder(SectionsOf(req[r].bookId))))]
                  /\ UNCHANGED <<req, store, written>>
    /\ UNCHANGED <<served, services>>

\* addSection with a save that is refused when the book is no longer stored.
AddSectionSaveForStoredBook(r) ==
    /\ pc[r] = "addSection_save"
    /\ nextSectionId <= MaxSections
    /\ \/ Fault(r)
       \/ LET story   == Get(req[r].body.story)
              section == PreSave([Get(loc[r].doc) EXCEPT !._id = nextSectionId,
                                                         !.createdAt = nextSectionId], TRUE)
          IN  IF \/ SectionSchemaErrors(section) # {} \/ IndexRefuses(section)
                 \/ ~\E b \in books : b._id = section.book
              THEN Throw(r)
              ELSE /\ sections' = sections \cup {section}
                   /\ nextSectionId' = nextSectionId + 1
                   /\ written' = [written EXCEPT ![section._id] = Some(story)]
                   /\ loc' = [loc EXCEPT ![r].doc = Some(section)]
                   /\ Reply(r, Response(201, TRUE, "Section added successfully", None,
                                        <<>>, <<WithStory(section, story)>>))
                   /\ UNCHANGED <<req, users, books, nextBookId, now>>
    /\ UNCHANGED <<served, services>>

\* addSection: section.save(), and the response with the story as it was given.
AddSectionSave(r) ==
    /\ pc[r] = "addSection_save"
    /\ nextSectionId <= MaxSections
    /\ \/ Fault(r)
       \/ LET story   == Get(req[r].body.story)
              section == PreSave([Get(loc[r].doc) EXCEPT !._id = nextSectionId,
                                                         !.createdAt = nextSectionId], TRUE)
          IN  IF SectionSchemaErrors(section) # {} \/ IndexRefuses(section)
              THEN Throw(r)
              ELSE /\ sections' = sections \cup {section}
                   /\ nextSectionId' = nextSectionId + 1
                   /\ written' = [written EXCEPT ![section._id] = Some(story)]
                   /\ loc' = [loc EXCEPT ![r].doc = Some(section)]
                   /\ Reply(r, Response(201, TRUE, "Section added successfully", None,
                                        <<>>, <<WithStory(section, story)>>))
                   /\ UNCHANGED <<req, users, books, nextBookId, now>>
    /\ UNCHANGED <<served, services>>

\* updateSection answering with the section as it was saved.
UpdateSectionSaveEchoesStored(r) ==
    /\ pc[r] = "updateSection_save"
    /\ \/ Fault(r)
       \/ LET loaded   == Get(loc[r].loaded)
              modified == ModifiedPaths(loaded, Get(loc[r].doc))
              doc      == PreSave(Get(loc[r].doc), "story" \in modified)
              current  == {s \in sections : s._id = doc._id}
              story    == req[r].body.story
          IN  IF modified # {} /\ (SectionSchemaErrors(doc) # {} \/ current = {})
              THEN Throw(r)
              ELSE /\ sections' = IF modified = {} THEN sections
                                  ELSE (sections \ current)
                                       \cup {UpdateOf(Get(current), loaded, doc)}
                   /\ written' = IF story # None
                                 THEN [written EXCEPT ![doc._id] = story]
                                 ELSE written
                   /\ loc' = [loc EXCEPT ![r].doc = Some(doc)]
                   /\ Reply(r, Response(200, TRUE, "Section updated successfully", None, <<>>,
                            <<doc>>))
                   /\ UNCHANGED <<req, users, books, nextBookId, nextSectionId, now>>
    /\ UNCHANGED <<served, services>>

\* updateSection: section.save(), and the response with the story as it was given
\* or, without one, as it decrypts.
UpdateSectionSave(r) ==
    /\ pc[r] = "updateSection_save"
    /\ \/ Fault(r)
       \/ LET loaded   == Get(loc[r].loaded)
              modified == ModifiedPaths(loaded, Get(loc[r].doc))
              doc      == PreSave(Get(loc[r].doc), "story" \in modified)
              current  == {s \in sections : s._id = doc._id}
              story    == req[r].body.story
          IN  IF modified # {} /\ (SectionSchemaErrors(doc) # {} \/ current = {})
              THEN Throw(r)
              ELSE /\ sections' = IF modified = {} THEN sections
                                  ELSE (sections \ current)
                                       \cup {UpdateOf(Get(current), loaded, doc)}
                   /\ written' = IF story # None
                                 THEN [written EXCEPT ![doc._id] = story]
                                 ELSE written
                   /\ loc' = [loc EXCEPT ![r].doc = Some(doc)]
                   /\ Reply(r, Response(200, TRUE, "Section updated successfully", None, <<>>,
                            <<WithStory(doc, IF story # None THEN Get(story)
                                             ELSE DecryptOrPlaceholder(doc.story))>>))
                   /\ UNCHANGED <<req, users, books, nextBookId, nextSectionId, now>>
    /\ UNCHANGED <<served, services>>

\* deleteSection: Section.findByIdAndDelete(sectionId)
DeleteSectionDelete(r) ==
    /\ pc[r] = "deleteSection_delete"
    /\ \/ Fault(r)
       \/ /\ sections' = {s \in sections : s._id # req[r].sectionId}
          /\ Reply(r, Response(200, TRUE, "Section deleted successfully", None, <<>>, <<>>))
          /\ UNCHANGED <<req, loc, users, books, nextBookId, nextSectionId, now, written>>
    /\ UNCHANGED <<served, services>>

(***************************************************************************)
(* Specifications                                                          *)
(***************************************************************************)
\* One step of the request on slot r.
Step(r) ==
    \/ AuthFindUser(r)
    \/ GetBooksFind(r)
    \/ CreateBookSave(r)
    \/ FindBook(r)
    \/ UpdateBookSave(r)
    \/ DeleteBookSections(r)
    \/ DeleteBookBook(r)
    \/ GetBookSectionsFind(r)
    \/ FindSection(r)
    \/ AddSectionFindLast(r)
    \/ AddSectionSave(r)
    \/ UpdateSectionSave(r)
    \/ DeleteSectionDelete(r)
    \/ Finish(r)

\* Requests served one at a time.
Next ==
    \/ \E q \in Requests : Receive(1, q)
    \/ Step(1)

Spec == Init /\ [][Next]_vars

\* Requests served concurrently: the steps of the requests in flight interleave
\* at their store calls.
ConcurrentNext ==
    \E r \in Slots :
        \/ \E q \in RaceRequests : Receive(r, q)
        \/ Step(r)

ConcurrentSpec == Init /\ [][ConcurrentNext]_vars

\* Stories that reach the store without passing through addSection or
\* updateSection: the text 'encrypted-story', the first half block of a
\* ciphertext, and the ciphertext of another text.
ForeignStories ==
    {<<101, 110, 99, 114, 121, 112, 116, 101, 100, 45, 115, 116, 111, 114, 121>>,
     SubSeq(Encrypt(StoryA), 1, BlockSize),
     Encrypt(TitleB)}

\* The story of a stored section is written with the model directly, not through
\* a handler: new Section({ ..., story }).save().
SaveStoryDirectly(section, story) ==
    /\ section \in sections
    /\ section.story # story
    /\ sections' = (sections \ {section})
                   \cup {PreSave([section EXCEPT !.story = Trim(story)], TRUE)}
    /\ UNCHANGED <<users, books, nextBookId, nextSectionId, now, pc, req, loc, resp,
                   served, written, services>>

\* Requests served one at a time over a store whose stories may also be written
\* directly.
DirectWriteNext ==
    \/ \E q \in RaceRequests : Receive(1, q)
    \/ Step(1)
    \/ \E section \in sections, story \in ForeignStories : SaveStoryDirectly(section, story)

DirectWriteSpec == Init /\ [][DirectWriteNext]_vars

(***************************************************************************)
(* The section routes on their own: two books exist, book 1 of the first   *)
(* user and book 2 of either user, and the registered users send section   *)
(* requests one at a time.                                                 *)
(***************************************************************************)
\* An updateSection body may move the section to the front (order 0), give it
\* the order 2, give it a negative order, or leave the order out.
SectionRouteBodies ==
    {[EmptyBody EXCEPT !.title = Some(TitleB), !.story = Some(StoryAB), !.order = o] :
        o \in {None, Some(-1), Some(0), Some(2)}}

SectionRouteRequests ==
    UNION {{Request("getBookSections", h, b, 0, EmptyBody) : b \in 1..2}
           \cup {Request(op, h, b, s, EmptyBody) :
                   op \in {"getSection", "deleteSection"}, b \in 1..2, s \in SectionIds}
           \cup {Request("addSection", h, b, 0,
                         [EmptyBody EXCEPT !.title = Some(TitleA), !.story = Some(StoryA)]) :
                   b \in 1..2}
           \cup {Request("updateSection", h, b, s, body) :
                   b \in 1..2, s \in SectionIds, body \in SectionRouteBodies} :
           h \in GoodHeaders}

SectionRoutesInit ==
    /\ users = RegisteredUsers
    /\ \E u \in RegisteredUsers :
          books = {NewBook(1, Some(TitleA), None, 1), NewBook(2, Some(TitleA), None, u._id)}
    /\ sections = {}
    /\ nextBookId = 3
    /\ nextSectionId = 1
    /\ now = 0
    /\ pc = [r \in Slots |-> "idle"]
    /\ req = [r \in Slots |-> NoRequest]
    /\ loc = [r \in Slots |-> NoLocals]
    /\ resp = [r \in Slots |-> NoResponse]
    /\ served = 0
    /\ written = [s \in SectionIds |-> None]
    /\ cipher = Constructor(Some(AES_SECRET_KEY), Some(AES_IV))
    /\ call = NoCall
    /\ secret = JWT_SECRET
    /\ issued = {}
    /\ jwtCall = NoJwtCall
    /\ limits = NoHits(DefaultRouteMax)
    /\ minute = 0
    /\ authReq = NoAuthRequest
    /\ authCount = 0

SectionRoutesNext ==
    \/ \E q \in SectionRouteRequests : Receive(1, q)
    \/ AuthFindUser(1)
    \/ FindBook(1)
    \/ GetBookSectionsFind(1)
    \/ FindSection(1)
    \/ AddSectionFindLast(1)
    \/ AddSectionSave(1)
    \/ UpdateSectionSave(1)
    \/ DeleteSectionDelete(1)
    \/ Finish(1)

SectionRoutesSpec == SectionRoutesInit /\ [][SectionRoutesNext]_vars

\* The section requests in which no updateSection carries an order.
UnorderedRequests ==
    {q \in SectionRouteRequests : q.body.order = None}

UnorderedNext ==
    \/ \E q \in UnorderedRequests : Receive(1, q)
    \/ AuthFindUser(1)
    \/ FindBook(1)
    \/ GetBookSectionsFind(1)
    \/ FindSection(1)
    \/ AddSectionFindLast(1)
    \/ AddSectionSave(1)
    \/ UpdateSectionSave(1)
    \/ DeleteSectionDelete(1)
    \/ Finish(1)

UnorderedSpec == SectionRoutesInit /\ [][UnorderedNext]_vars

(***************************************************************************)
(* The Section model on its own: documents are created, changed and saved  *)
(* with the model, as its tests do.                                        *)
(***************************************************************************)
\* '', ' ', 'a', 'a b', a tab and a line break between words, and the stories
\* '  word1   word2  word3  ' and 'This is a test story content.'
ModelStories ==
    {<<>>, <<32>>, <<97>>, <<97, 32, 98>>, <<97, 9, 98, 10, 99>>,
     <<32, 32, 119, 111, 114, 100, 49, 32, 32, 32, 119, 111, 114, 100, 50, 32, 32, 119, 111, 114, 100, 51, 32, 32>>,
     <<84, 104, 105, 115, 32, 105, 115, 32, 97, 32, 116, 101, 115, 116, 32, 115, 116, 111, 114, 121, 32, 99, 111, 110, 116, 101, 110, 116, 46>>}

\* new Section({ title, story, book }).save()
ModelCreate(story) ==
    /\ nextSectionId <= MaxSections
    /\ sections' = sections \cup
                      {PreSave([NewSection(nextSectionId, Some(TitleA), story, 1, 0)
                                   EXCEPT !.createdAt = nextSectionId], TRUE)}
    /\ nextSectionId' = nextSectionId + 1
    /\ UNCHANGED <<users, books, nextBookId, now, requests, services>>

\* section.title = title; section.story = story; section.save(): the story
\* counts as modified when the value set differs from the one loaded.
ModelSave(section, title, story) ==
    /\ section \in sections
    /\ LET doc == [section EXCEPT !.title = Trim(title), !.story = Trim(story)]
       IN  /\ doc # section
           /\ sections' = (sections \ {section})
                            \cup {PreSave(doc, doc.story # section.story)}
    /\ UNCHANGED <<users, books, nextBookId, nextSectionId, now, requests, services>>

\* section.wordCount = count; section.save(): the field is an ordinary path of
\* the schema.
ModelSetWordCount(section, count) ==
    /\ section \in sections
    /\ section.wordCount # count
    /\ sections' = (sections \ {section}) \cup {[section EXCEPT !.wordCount = count]}
    /\ UNCHANGED <<users, books, nextBookId, nextSectionId, now, requests, services>>

SectionModelNext ==
    \/ \E story \in ModelStories : ModelCreate(story)
    \/ \E section \in sections, title \in {TitleA, TitleB}, story \in ModelStories :
          ModelSave(section, title, story)
    \/ \E section \in sections : ModelSetWordCount(section, Len(section.story) + 1)

SectionModelSpec == Init /\ [][SectionModelNext]_vars

(***************************************************************************)
(* The EncryptionService on its own: the module is loaded with some key    *)
(* and IV in the environment, and its methods are called with texts.       *)
(***************************************************************************)
\* The longest of the short texts.
MaxTextLen == 2

TextChars == {10, 32, 97, 122}

\* The text of n letters 'a'.
Letters(n) == [i \in 1..n |-> 97]

\* Every text of up to MaxTextLen characters, and texts of one character less
\* than a block, of a block, of one more, and of two blocks.
Texts ==
    UNION {[1..n -> TextChars] : n \in 0..MaxTextLen}
    \cup {Letters(n) : n \in {BlockSize - 1, BlockSize, BlockSize + 1, 2 * BlockSize}}

\* process.env.AES_SECRET_KEY: unset, empty, one character short, the configured
\* key, another key of the right length, one character long.
KeySettings ==
    {None, Some(<<>>), Some(Letters(KeyLength - 1)), Some(AES_SECRET_KEY),
     Some(Letters(KeyLength)), Some(Letters(KeyLength + 1))}

\* process.env.AES_IV: unset, empty, one character short, the configured IV, one
\* character long.
IvSettings ==
    {None, Some(<<>>), Some(Letters(IvLength - 1)), Some(AES_IV), Some(Letters(IvLength + 1))}

CipherInit ==
    /\ users = RegisteredUsers
    /\ books = {}
    /\ sections = {}
    /\ nextBookId = 1
    /\ nextSectionId = 1
    /\ now = 0
    /\ pc = [r \in Slots |-> "idle"]
    /\ req = [r \in Slots |-> NoRequest]
    /\ loc = [r \in Slots |-> NoLocals]
    /\ resp = [r \in Slots |-> NoResponse]
    /\ served = 0
    /\ written = [s \in SectionIds |-> None]
    /\ cipher = NoService
    /\ call = NoCall
    /\ secret = JWT_SECRET
    /\ issued = {}
    /\ jwtCall = NoJwtCall
    /\ limits = NoHits(DefaultRouteMax)
    /\ minute = 0
    /\ authReq = NoAuthRequest
    /\ authCount = 0

\* require('encryption.service'): module.exports = new EncryptionService()
LoadEncryptionService(secretKey, iv) ==
    /\ cipher.state = "unloaded"
    /\ cipher' = Constructor(secretKey, iv)
    /\ UNCHANGED <<store, requests, call, tokenVars, limiterVars>>

\* encryptionService.encrypt(text); a module whose constructor threw exports
\* nothing to call.
CallEncrypt(text) ==
    /\ cipher.state = "constructed"
    /\ call' = [op |-> "encrypt", input |-> text,
                result |-> EncryptWith(Get(cipher.secretKey), Get(cipher.iv), text),
                plain |-> None]
    /\ UNCHANGED <<store, requests, cipher, tokenVars, limiterVars>>

\* encryptionService.decrypt(encryptedText)
CallDecrypt(encryptedText, plain) ==
    /\ cipher.state = "constructed"
    /\ call' = [op |-> "decrypt", input |-> encryptedText,
                result |-> DecryptWith(Get(cipher.secretKey), Get(cipher.iv), encryptedText),
                plain |-> plain]
    /\ UNCHANGED <<store, requests, cipher, tokenVars, limiterVars>>

\* The service is loaded once; encrypt is called with any text, and decrypt with
\* what the last encrypt returned or with a story from elsewhere.
CipherNext ==
    \/ \E secretKey \in KeySettings, iv \in IvSettings : LoadEncryptionService(secretKey, iv)
    \/ \E text \in Texts : CallEncrypt(text)
    \/ /\ call.op = "encrypt"
       /\ call.result.ok
       /\ CallDecrypt(call.result.text, Some(call.input))
    \/ \E story \in ForeignStories \cup {<<>>} : CallDecrypt(story, None)

CipherSpec == CipherInit /\ [][CipherNext]_vars

(***************************************************************************)
(* The JWTService on its own: tokens are generated, headers parsed and     *)
(* tokens verified while time passes and the configured secret may change. *)
(***************************************************************************)
\* The number of tokens generated in a run.
MaxIssued == 1

\* Time runs to the day after a token of day 0 expires.
MaxTime == JWT_EXPIRES_IN + 1

\* 'x', and the token of user 1 of day 0 with its subject changed to user 2.
MalformedTokens ==
    {<<120>>,
     [GenerateToken(1, 0, JWT_SECRET) EXCEPT ![1] = 2]}

\* Absent, empty, 'Bearer', 'Bearer ', 'Token x', and 'Bearer x'.
ExtractHeaders ==
    {None, Some(<<>>), Some(SubSeq(BearerPrefix, 1, Len(BearerPrefix) - 1)),
     Some(BearerPrefix), Some(<<84, 111, 107, 101, 110, 32, 120>>), Bearer(<<120>>)}

\* jwtService.generateToken(userId)
CallGenerateToken(userId) ==
    /\ Cardinality(issued) < MaxIssued
    /\ LET token == GenerateToken(userId, now, secret)
       IN  /\ issued' = issued \cup {[token |-> token, userId |-> userId,
                                      secret |-> secret, issuedAt |-> now]}
           /\ jwtCall' = [NoJwtCall EXCEPT
                            !.op = "generateToken", !.userId = userId, !.time = now,
                            !.secret = secret,
                            !.result = [ok |-> TRUE, token |-> token, userId |-> 0]]
    /\ UNCHANGED <<store, requests, cipherVars, secret, limiterVars>>

\* jwtService.verifyToken(token)
CallVerifyToken(token) ==
    /\ LET decoded == VerifyToken(token, now, secret)
       IN  jwtCall' = [NoJwtCall EXCEPT
                         !.op = "verifyToken", !.token = token, !.time = now,
                         !.secret = secret,
                         !.result = [ok |-> decoded.ok, token |-> <<>>,
                                     userId |-> decoded.userId]]
    /\ UNCHANGED <<store, requests, cipherVars, secret, issued, limiterVars>>

\* jwtService.extractTokenFromHeader(authHeader)
CallExtractTokenFromHeader(authHeader) ==
    /\ LET extracted == ExtractTokenFromHeader(authHeader)
       IN  jwtCall' = [NoJwtCall EXCEPT
                         !.op = "extractTokenFromHeader", !.header = authHeader,
                         !.time = now, !.secret = secret,
                         !.result = [ok |-> extracted.ok, token |-> extracted.token,
                                     userId |-> 0]]
    /\ UNCHANGED <<store, requests, cipherVars, secret, issued, limiterVars>>

\* A day passes.
Tick ==
    /\ now < MaxTime
    /\ now' = now + 1
    /\ UNCHANGED <<users, books, sections, nextBookId, nextSectionId, requests, services>>

\* process.env.JWT_SECRET is set to another value.
ChangeSecret(newSecret) ==
    /\ newSecret # secret
    /\ secret' = newSecret
    /\ UNCHANGED <<store, requests, cipherVars, issued, jwtCall, limiterVars>>

TokenNext ==
    \/ \E u \in RegisteredUsers : CallGenerateToken(u._id)
    \/ \E t \in {i.token : i \in issued} \cup MalformedTokens \cup {<<>>} : CallVerifyToken(t)
    \/ \E h \in ExtractHeaders \cup {Bearer(i.token) : i \in issued} :
          CallExtractTokenFromHeader(h)
    \/ Tick
    \/ \E newSecret \in {JWT_SECRET, ForgedSecret} : ChangeSecret(newSecret)

TokenSpec == Init /\ [][TokenNext]_vars

(***************************************************************************)
(* The rate limiters of /api/auth: the one the app mounts on the whole     *)
(* path and the one the router puts before register and login, each with   *)
(* its own store of hits per client IP.                                    *)
(***************************************************************************)
\* The number of requests to /api/auth in a run.
MaxAuthRequests == 7

\* The time between two moments of the clock, and the number of them.
TickMinutes == 5

MaxTicks == 4

TooManyRequests == "Too many requests from this IP, please try again later."

\* The store of a limiter counts a hit of a key: the first hit, and the first
\* after the window of the key has expired, opens a window of WindowMinutes.
\* authHits is history: the hits of the window that were register or login
\* requests.
Hit(entry, time, isAuthRoute) ==
    LET one == IF isAuthRoute THEN 1 ELSE 0
    IN  IF entry.resetAt <= time
        THEN [hits |-> 1, authHits |-> one, resetAt |-> time + WindowMinutes]
        ELSE [entry EXCEPT !.hits = @ + 1, !.authHits = @ + one]

\* A limiter that lets through one request more than its limit.
RateLimitedLate(totalHits, max) == totalHits > max + 1

\* A limiter refuses the request whose hit takes the count over the limit.
RateLimited(totalHits, max) == totalHits > max

\* The limiter configuration: the route limiter takes its limit from
\* RATE_LIMIT_MAX_REQUESTS, and 5 without it.
LimiterInit ==
    /\ users = RegisteredUsers
    /\ books = {}
    /\ sections = {}
    /\ nextBookId = 1
    /\ nextSectionId = 1
    /\ now = 0
    /\ pc = [r \in Slots |-> "idle"]
    /\ req = [r \in Slots |-> NoRequest]
    /\ loc = [r \in Slots |-> NoLocals]
    /\ resp = [r \in Slots |-> NoResponse]
    /\ served = 0
    /\ written = [s \in SectionIds |-> None]
    /\ cipher = Constructor(Some(AES_SECRET_KEY), Some(AES_IV))
    /\ call = NoCall
    /\ secret = JWT_SECRET
    /\ issued = {}
    /\ jwtCall = NoJwtCall
    /\ \E routeMax \in {DefaultRouteMax, ExampleRouteMax} : limits = NoHits(routeMax)
    /\ minute = 0
    /\ authReq = NoAuthRequest
    /\ authCount = 0

\* A request to /api/auth/register, /api/auth/login or /api/auth/me: the limiter
\* of the app counts it and refuses or passes it on; register and login then go
\* through the limiter of their route, and what passes reaches the route's
\* validation and handler (for me, authenticateToken).
AuthRequest(ip, route) ==
    /\ authCount < MaxAuthRequests
    /\ authCount' = authCount + 1
    /\ LET isAuthRoute == route \in {"register", "login"}
           appEntry    == Hit(limits.app[ip], minute, isAuthRoute)
           routeEntry  == Hit(limits.route[ip], minute, isAuthRoute)
           refused     == [ip |-> ip, route |-> route, status |-> 429,
                           message |-> TooManyRequests, reachedHandler |-> FALSE]
           passed      == [ip |-> ip, route |-> route, status |-> 0,
                           message |-> "", reachedHandler |-> TRUE]
       IN  IF RateLimited(appEntry.hits, RateLimitMax)
           THEN /\ limits' = [limits EXCEPT !.app[ip] = appEntry]
                /\ authReq' = refused
           ELSE IF ~isAuthRoute
           THEN /\ limits' = [limits EXCEPT !.app[ip] = appEntry]
                /\ authReq' = passed
           ELSE /\ limits' = [limits EXCEPT !.app[ip] = appEntry, !.route[ip] = routeEntry]
                /\ authReq' = IF RateLimited(routeEntry.hits, limits.routeMax)
                              THEN refused ELSE passed
    /\ UNCHANGED <<store, requests, cipherVars, tokenVars, minute>>

\* Time passes.
LimiterTick ==
    /\ minute < MaxTicks * TickMinutes
    /\ minute' = minute + TickMinutes
    /\ UNCHANGED <<store, requests, cipherVars, tokenVars, limits, authReq, authCount>>

LimiterNext ==
    \/ \E ip \in ClientIps, route \in {"register", "login", "me"} : AuthRequest(ip, route)
    \/ LimiterTick

LimiterSpec == LimiterInit /\ [][LimiterNext]_vars

(***************************************************************************)
(* Properties                                                              *)
(***************************************************************************)
\* The handlers that start with the ownership check.
OwnershipCheckedOps ==
    {"getBook", "updateBook", "deleteBook", "getBookSections", "getSection",
     "addSection", "updateSection", "deleteSection"}

\* The user a request in flight is authenticated as, if it is.
UserIdOf(r) == {u._id : u \in loc[r].user}

BookNotFound == Failure(404, "Book not found")

\* C1: when the ownership check of getBook, updateBook, deleteBook,
\* getBookSections, getSection, addSection, updateSection or deleteSection
\* returns and the store holds no book with the requested id that belongs to the
\* requesting user, the handler answers 404 'Book not found' and does nothing
\* else: the same answer whether no book has the id or another user's book has.
C1_NotOwnedIsNotFound ==
    [][\A r \in Slots :
        (/\ pc[r] = "findBook"
         /\ pc'[r] # "findBook"
         /\ ~loc'[r].fault
         /\ ~\E b \in books : b._id = req[r].bookId /\ UserIdOf(r) = {b.user})
        => /\ req[r].op \in OwnershipCheckedOps
           /\ pc'[r] = "done"
           /\ resp'[r] = BookNotFound
           /\ store' = store]_vars

\* C1 witness: a deleteBook was answered 404 'Book not found' for a book that
\* exists and belongs to another user.
C1_Witness ==
    \E r \in Slots :
        /\ pc[r] = "done"
        /\ req[r].op = "deleteBook"
        /\ resp[r] = BookNotFound
        /\ \E b \in books :
             b._id = req[r].bookId /\ UserIdOf(r) # {} /\ UserIdOf(r) # {b.user}

\* No request in flight is authenticated as the owner of book b.
NoOwnerInFlight(b) == \A r \in Slots : UserIdOf(r) # {b.user}

\* Every book and section in a response belongs to the user the request is
\* authenticated as; a request that is not authenticated gets none.
ResponsesToOwnerOnly ==
    \A r \in Slots :
        /\ \A i \in DOMAIN resp[r].books : UserIdOf(r) = {resp[r].books[i].user}
        /\ \A i \in DOMAIN resp[r].sections :
             /\ UserIdOf(r) # {}
             /\ \A b \in books :
                  b._id = resp[r].sections[i].book => UserIdOf(r) = {b.user}

\* C2: a step of the requests of other users leaves a book and the sections of
\* the book as they are, and no response holds a book, or a section of a book,
\* of another user than the one the request is authenticated as.
C2_OwnerOnly ==
    [][/\ \A b \in books :
            NoOwnerInFlight(b) /\ NoOwnerInFlight(b)'
            => /\ b \in books'
               /\ {s \in sections' : s.book = b._id} = {s \in sections : s.book = b._id}
       /\ ResponsesToOwnerOnly']_vars

\* C2 witness: an updateSection of another user on an existing section of a book
\* has been answered.
C2_Witness ==
    \E r \in Slots :
        /\ pc[r] = "done"
        /\ req[r].op = "updateSection"
        /\ \E b \in books :
             /\ b._id = req[r].bookId
             /\ UserIdOf(r) # {} /\ UserIdOf(r) # {b.user}
             /\ \E s \in sections : s.book = b._id /\ s._id = req[r].sectionId

\* C3: the word count stored for a section is the number of blank-delimited
\* words of the story last written to it through addSection or updateSection.
C3_WordCountOfPlaintext ==
    \A s \in sections :
        written[s._id] # None => s.wordCount = CountWords(Get(written[s._id]))

\* The request of slot r has been answered by its handler, no store call failing.
Answered(r) == pc[r] = "done" /\ loc[r].nextCalls = 1 /\ ~loc[r].fault

\* C4: the owner's getBookSections lists every section of the book, and the
\* owner's getSection returns the section, with the story that was last given
\* for it to addSection or updateSection.
C4_ReadAfterWrite ==
    \A r \in Slots :
        Answered(r) /\ OwnedBook(req[r].bookId, Get(loc[r].user)._id) # {}
        => /\ req[r].op = "getBookSections"
              => /\ resp[r].status = 200
                 /\ \A s \in sections :
                      s.book = req[r].bookId
                      => \E i \in DOMAIN resp[r].sections :
                            /\ resp[r].sections[i]._id = s._id
                            /\ resp[r].sections[i].story = Get(written[s._id])
           /\ req[r].op = "getSection"
              => \A s \in sections :
                    s.book = req[r].bookId /\ s._id = req[r].sectionId
                    => /\ resp[r].status = 200
                       /\ resp[r].sections[1].story = Get(written[s._id])

\* C4 witness: the owner's getSection returned 'a  b' for a section added with it.
C4_Witness ==
    \E r \in Slots :
        /\ Answered(r)
        /\ req[r].op = "getSection"
        /\ resp[r].status = 200
        /\ resp[r].sections[1].story = Trim(StoryAB)
        /\ written[req[r].sectionId] = Some(Trim(StoryAB))

\* The request of slot r is past the gate.
PastGate(r) == pc[r] \notin {"idle", "auth_findUser"}

\* C5: for a request past the gate, the gate either called next() once or sent
\* one response, not both and not neither; it called next() only for a header
\* that is present, whose token was extracted and verified and whose subject the
\* lookup returned, with req.user that user without the password; otherwise
\* req.user is not set.
C5_GateFailClosed ==
    \A r \in Slots :
        PastGate(r)
        => /\ loc[r].nextCalls + loc[r].gateResponses = 1
           /\ loc[r].nextCalls = 0 => loc[r].user = None
           /\ loc[r].nextCalls = 1
              => LET extracted == ExtractTokenFromHeader(req[r].header)
                     decoded   == VerifyToken(extracted.token, now, JWT_SECRET)
                 IN  /\ req[r].header # None
                     /\ extracted.ok
                     /\ decoded.ok
                     /\ ~loc[r].lookupThrew
                     /\ \E u \in users :
                          /\ u._id = decoded.userId
                          /\ loc[r].user = {[_id |-> u._id, email |-> u.email]}

\* C5 witness: the gate let a request of user 1 through.
C5_Witness ==
    \E r \in Slots :
        /\ PastGate(r)
        /\ loc[r].nextCalls = 1
        /\ loc[r].gateResponses = 0
        /\ loc[r].user = {[_id |-> 1, email |-> "a@x.com"]}

AccessTokenRequired == Failure(401, "Access token required")

InvalidOrExpiredToken == Failure(401, "Invalid or expired token")

\* C6: a request whose Authorization header is absent, empty, does not start
\* with 'Bearer ' or has nothing after 'Bearer ' is rejected with 401 'Access
\* token required' and next() is not called.
C6_MissingTokenRejected ==
    \A r \in Slots :
        (/\ pc[r] # "idle"
         /\ \/ req[r].header = None
            \/ ~StartsWith(Get(req[r].header), BearerPrefix)
            \/ Get(req[r].header) = BearerPrefix)
        => /\ pc[r] = "done"
           /\ resp[r] = AccessTokenRequired
           /\ loc[r].nextCalls = 0

\* C7: a request whose token does not verify, and a request whose verified token
\* names a subject the user store does not hold, are both rejected with 401
\* 'Invalid or expired token'.
C7_SameRejection ==
    \A r \in Slots :
        LET extracted == ExtractTokenFromHeader(req[r].header)
            decoded   == VerifyToken(extracted.token, now, JWT_SECRET)
        IN  (/\ PastGate(r)
             /\ extracted.ok
             /\ extracted.token # <<>>
             /\ \/ ~decoded.ok
                \/ ~loc[r].lookupThrew /\ ~\E u \in users : u._id = decoded.userId)
            => /\ pc[r] = "done"
               /\ resp[r] = InvalidOrExpiredToken
               /\ loc[r].nextCalls = 0

\* C8: when the user lookup of the gate throws, the gate rejects with 500
\* 'Authentication failed' and does not call next().
C8_LookupFaultIs500 ==
    \A r \in Slots :
        loc[r].lookupThrew
        => /\ pc[r] = "done"
           /\ resp[r] = Failure(500, "Authentication failed")
           /\ loc[r].nextCalls = 0

DuplicateOrder ==
    \E s1, s2 \in sections : s1._id # s2._id /\ s1.book = s2.book /\ s1.order = s2.order

\* C10: the save of an addSection is not refused when, since the handler read the
\* last section, another section of the book was saved with the order the
\* handler computed: the addSection succeeds and two sections of the book carry
\* the same order.
C10_StaleOrderIsSaved ==
    [][\A r \in Slots :
        (/\ pc[r] = "addSection_save"
         /\ pc'[r] = "done"
         /\ ~loc'[r].fault
         /\ \E s \in sections :
               s.book = req[r].bookId /\ s.order = Get(loc[r].doc).order)
        => /\ resp'[r].status = 201
           /\ DuplicateOrder']_vars

\* C10 witness: two addSection requests on one book were both answered 201 and
\* their sections carry the same order.
C10_Witness ==
    \E r1, r2 \in Slots :
        /\ r1 # r2
        /\ pc[r1] = "done" /\ pc[r2] = "done"
        /\ req[r1].op = "addSection" /\ req[r2].op = "addSection"
        /\ resp[r1].status = 201 /\ resp[r2].status = 201
        /\ req[r1].bookId = req[r2].bookId
        /\ resp[r1].sections[1].order = resp[r2].sections[1].order
        /\ \A r \in {r1, r2} : \E s \in sections : s._id = resp[r].sections[1]._id
        /\ DuplicateOrder


\* C11: the owner's deleteBook first deletes the sections of the book, leaving
\* the books as they are, and then deletes the book, leaving the sections as
\* they are; when it answers 200 with no other request in between, the store
\* holds neither the book nor a section of it, and the other books and the
\* sections of other books are as they were.
C11_CascadeDelete ==
    [][\A r \in Slots :
        /\ (/\ pc[r] = "deleteBook_deleteSections"
            /\ pc'[r] # pc[r]
            /\ ~loc'[r].fault)
           => /\ pc'[r] = "deleteBook_deleteBook"
              /\ books' = books
              /\ \E b \in books : b._id = req[r].bookId /\ UserIdOf(r) = {b.user}
              /\ sections' = {s \in sections : s.book # req[r].bookId}
        /\ (/\ pc[r] = "deleteBook_deleteBook"
            /\ pc'[r] # pc[r]
            /\ ~loc'[r].fault)
           => /\ pc'[r] = "done"
              /\ resp'[r].status = 200 /\ resp'[r].success
              /\ books' = {b \in books : b._id # req[r].bookId}
              /\ sections' = sections
              /\ ~\E b \in books' : b._id = req[r].bookId
              /\ ~\E s \in sections' : s.book = req[r].bookId]_vars

\* C11 witness: a deleteBook was answered 200; the one section ever added, which
\* was a section of the deleted book, is gone and the other book is still there.
C11_Witness ==
    \E r \in Slots :
        /\ pc[r] = "done"
        /\ req[r].op = "deleteBook"
        /\ resp[r].status = 200
        /\ nextSectionId = 2
        /\ written[1] # None
        /\ sections = {}
        /\ \E b \in books : b._id # req[r].bookId

\* A section whose book the store no longer holds.
Orphaned(s) == ~\E b \in books : b._id = s.book

\* The deleteBook of slot r stopped between its two steps: the sections were
\* deleted and the deletion of the book has not run, or it failed.
StoppedBetweenSteps(r) ==
    /\ req[r].op = "deleteBook"
    /\ loc[r].deletedCount # None
    /\ \/ pc[r] = "deleteBook_deleteBook"
       \/ pc[r] = "done" /\ loc[r].fault

\* C12 as stated: a deleteBook that stopped between its two steps after deleting
\* the sections the book had leaves a section whose book no longer exists.
C12_FailureLeavesOrphans ==
    \A r \in Slots :
        StoppedBetweenSteps(r) /\ Get(loc[r].deletedCount) > 0
        => \E s \in sections : Orphaned(s)

\* C12 amended: a deleteBook that stopped between its two steps leaves the book
\* in the store without any of its sections (a failure is answered 500 'Failed
\* to delete book'), and no section in the store is without its book.
C12_FailureStripsBook ==
    \A r \in Slots :
        StoppedBetweenSteps(r)
        => /\ \E b \in books : b._id = req[r].bookId /\ UserIdOf(r) = {b.user}
           /\ ~\E s \in sections : s.book = req[r].bookId
           /\ ~\E s \in sections : Orphaned(s)
           /\ pc[r] = "done" => resp[r] = Failure(500, "Failed to delete book")

\* C12 witness: the deletion of a book failed after its one section was deleted.
C12_Witness ==
    \E r \in Slots :
        /\ StoppedBetweenSteps(r)
        /\ pc[r] = "done"
        /\ loc[r].deletedCount = Some(1)
        /\ written[1] # None
        /\ sections = {}

\* C13: the owner's getBookSections, when its query returns, answers 200 with
\* every section the book has at that moment and their number as count; a section whose stored story does not decrypt is
\* listed with the story '[Encryption Error]', a section whose stored story is
\* the ciphertext of the story last given for it is listed with that story, and
\* any other with the text its stored story decrypts to.
C13_DecryptionIsolated ==
    [][\A r \in Slots :
        (/\ pc[r] = "getBookSections_find"
         /\ pc'[r] # pc[r]
         /\ ~loc'[r].fault)
        => /\ pc'[r] = "done"
           /\ resp'[r].status = 200
           /\ resp'[r].success
           /\ resp'[r].count = Some(Cardinality({s \in sections : s.book = req[r].bookId}))
           /\ resp'[r].count = Some(Len(resp'[r].sections))
           /\ \A s \in sections :
                s.book = req[r].bookId
                => \E i \in DOMAIN resp'[r].sections :
                      /\ resp'[r].sections[i]._id = s._id
                      /\ resp'[r].sections[i].story =
                            IF ~Decrypt(s.story).ok THEN EncryptionErrorText
                            ELSE IF written[s._id] # None
                                    /\ s.story = Encrypt(Get(written[s._id]))
                            THEN Get(written[s._id])
                            ELSE Decrypt(s.story).text]_vars

\* C13 witness: a listing of two sections, one with the story '[Encryption
\* Error]' for a stored story that does not decrypt and one with the story that
\* was given for it.
C13_Witness ==
    \E r \in Slots :
        /\ Answered(r)
        /\ req[r].op = "getBookSections"
        /\ resp[r].status = 200
        /\ resp[r].count = Some(2)
        /\ \E i, j \in DOMAIN resp[r].sections :
             /\ resp[r].sections[i].story = EncryptionErrorText
             /\ \E s \in sections :
                  s._id = resp[r].sections[i]._id /\ ~Decrypt(s.story).ok
             /\ resp[r].sections[j].story = Get(written[resp[r].sections[j]._id])
             /\ resp[r].sections[j].story # EncryptionErrorText

\* C14: the stored story of every section written through addSection or
\* updateSection is the ciphertext of the story last given for it to one of
\* them, it decrypts to that story, and it is not that story itself.
C14_CiphertextAtRest ==
    \A s \in sections :
        written[s._id] # None
        => /\ s.story = Encrypt(Get(written[s._id]))
           /\ Decrypt(s.story) = [ok |-> TRUE, text |-> Get(written[s._id])]
           /\ s.story # Get(written[s._id])

\* C14 witness: an updateSection with the story 'a  b' was answered 200 for a
\* section added with another story, and the store holds the ciphertext of 'a  b'.
C14_Witness ==
    \E r \in Slots :
        /\ pc[r] = "done"
        /\ req[r].op = "updateSection"
        /\ resp[r].status = 200
        /\ req[r].body.story = Some(Trim(StoryAB))
        /\ \E s \in sections :
             /\ s._id = req[r].sectionId
             /\ Get(loc[r].loaded).story = Encrypt(StoryA)
             /\ s.story = Encrypt(Trim(StoryAB))
             /\ s.story # Trim(StoryAB)

\* C15: encrypt never fails, for any text, the empty one included, and decrypt
\* of what encrypt returned for a text returns that text.
C15_RoundTrip ==
    /\ call.op = "encrypt" => call.result.ok
    /\ call.op = "decrypt" /\ call.plain # None
       => call.result = [ok |-> TRUE, text |-> Get(call.plain)]

\* C15 witness: the ciphertext of the empty text is one block, and decrypt
\* returned the empty text for it.
C15_Witness ==
    /\ call.op = "decrypt"
    /\ call.plain = Some(<<>>)
    /\ Len(call.input) = 2 * BlockSize
    /\ call.result = [ok |-> TRUE, text |-> <<>>]

\* The key and the IV the service was loaded with have the lengths required.
KeyIsValid == cipher.secretKey # None /\ Len(Get(cipher.secretKey)) = KeyLength

IvIsValid == cipher.iv # None /\ Len(Get(cipher.iv)) = IvLength

\* C16: loading the service fails with the key error when the key is unset or
\* not of 32 characters, whatever the IV; with a key of 32 characters it fails
\* with the IV error when the IV is unset or not of 16 characters; it succeeds
\* only with both of the required lengths, and encrypt and decrypt are called
\* only on a service that was loaded with such a key and IV.
C16_FailFast ==
    /\ cipher.state # "unloaded"
       => /\ ~KeyIsValid => cipher.state = "failed" /\ cipher.error = KeyError
          /\ KeyIsValid /\ ~IvIsValid => cipher.state = "failed" /\ cipher.error = IvError
          /\ KeyIsValid /\ IvIsValid => cipher.state = "constructed" /\ cipher.error = ""
    /\ call.op # "none" => cipher.state = "constructed" /\ KeyIsValid /\ IvIsValid

\* C16 witness: with the configured key and an IV of 15 characters the
\* constructor threw the IV error, and no method was called.
C16_Witness ==
    /\ cipher.state = "failed"
    /\ cipher.error = IvError
    /\ cipher.secretKey = Some(AES_SECRET_KEY)
    /\ cipher.iv = Some(Letters(IvLength - 1))
    /\ call = NoCall

\* C17: extractTokenFromHeader returns what follows 'Bearer ' when the header is
\* present, starts with 'Bearer ' and has something after it, and throws for
\* every other header.
C17_ExtractToken ==
    jwtCall.op = "extractTokenFromHeader"
    => LET h == jwtCall.header
           hasToken == /\ h # None
                       /\ StartsWith(Get(h), BearerPrefix)
                       /\ Len(Get(h)) > Len(BearerPrefix)
       IN  IF hasToken
           THEN /\ jwtCall.result.ok
                /\ BearerPrefix \o jwtCall.result.token = Get(h)
           ELSE ~jwtCall.result.ok

\* The tokens generateToken returned under the secret configured at the last
\* call that have not expired at the time of that call.
ValidAtCall ==
    {i \in issued : /\ i.token = jwtCall.token
                    /\ i.secret = jwtCall.secret
                    /\ jwtCall.time < i.issuedAt + JWT_EXPIRES_IN}

\* C18: verifyToken returns the subject of a token exactly when generateToken
\* returned the token for that subject under the secret configured at the
\* verification and the token has not expired by then; for a token generated
\* under another secret, an expired, a malformed or an empty one it throws
\* 'Invalid or expired token'.
C18_VerifyToken ==
    jwtCall.op = "verifyToken"
    => /\ jwtCall.result.ok <=> ValidAtCall # {}
       /\ jwtCall.result.ok => \A i \in ValidAtCall : jwtCall.result.userId = i.userId

\* C18 witness: a token generated for user 2 was verified on the last day before
\* its expiry, under the secret it was generated under, and yielded user 2.
C18_Witness ==
    /\ jwtCall.op = "verifyToken"
    /\ jwtCall.result.ok
    /\ jwtCall.result.userId = 2
    /\ \E i \in ValidAtCall : i.userId = 2 /\ jwtCall.time = i.issuedAt + JWT_EXPIRES_IN - 1

\* A token that was generated was refused on the day of its expiry although the
\* secret is the one it was generated under.
C18_ExpiredWitness ==
    /\ jwtCall.op = "verifyToken"
    /\ ~jwtCall.result.ok
    /\ \E i \in issued : /\ i.token = jwtCall.token
                          /\ i.secret = jwtCall.secret
                          /\ jwtCall.time = i.issuedAt + JWT_EXPIRES_IN

\* The response of a limiter that refuses a request.
Refused(request) ==
    /\ request.status = 429
    /\ request.message = TooManyRequests
    /\ ~request.reachedHandler

C20_GetBooks ==
    \A r \in Slots :
        Answered(r) /\ req[r].op = "getBooks"
        => LET mine   == {b \in books : UserIdOf(r) = {b.user}}
               listed == {resp[r].books[i] : i \in DOMAIN resp[r].books}
           IN  /\ resp[r].status = 200
               /\ resp[r].success
               /\ listed = mine
               /\ Len(resp[r].books) = Cardinality(mine)
               /\ resp[r].count = Some(Len(resp[r].books))
               /\ mine = {} => resp[r].books = <<>> /\ resp[r].count = Some(0)

\* C20 witness: getBooks listed the one book of the requesting user while the
\* store also holds a book of the other user.
C20_Witness ==
    \E r \in Slots :
        /\ Answered(r)
        /\ req[r].op = "getBooks"
        /\ resp[r].count = Some(1)
        /\ UserIdOf(r) = {resp[r].books[1].user}
        /\ \E b \in books : UserIdOf(r) # {b.user}

\* A user without a book, while the other user has one, got the empty list with
\* count 0.
C20_EmptyWitness ==
    \E r \in Slots :
        /\ Answered(r)
        /\ req[r].op = "getBooks"
        /\ resp[r].count = Some(0)
        /\ resp[r].books = <<>>
        /\ books # {}

\* The number of maximal runs of characters of t that are not blanks.
Runs(t) ==
    Cardinality({i \in 1..Len(t) : t[i] \notin WhiteSpace /\ (i = 1 \/ t[i - 1] \in WhiteSpace)})

GivenStories == {StoryA, Trim(StoryAB)}

\* The step of slot r is the save of updateSection, the store has not failed and
\* the schema accepts the document.
UpdateSectionSaved(r) ==
    /\ pc[r] = "updateSection_save"
    /\ pc'[r] = "done"
    /\ ~loc'[r].fault
    /\ SectionSchemaErrors(Get(loc[r].doc)) = {}

\* The step of slot r is the answer of getSection for a section it found.
GetSectionAnswered(r) ==
    /\ pc[r] = "findSection"
    /\ pc'[r] = "done"
    /\ req[r].op = "getSection"
    /\ resp'[r].status = 200

\* C22: when the save of an updateSection that was given a story p goes through,
\* the stored story of the section is encrypt(p) and the response is 200 with
\* story p; and a getSection of a section whose stored story is encrypt(p)
\* answers with story p.
C22_UpdateEchoesPlaintext ==
    [][\A r \in Slots :
          /\ UpdateSectionSaved(r) /\ req[r].body.story # None
             => /\ resp'[r].status = 200
                /\ resp'[r].sections[1].story = Get(req[r].body.story)
                /\ resp'[r].sections[1].story # Encrypt(Get(req[r].body.story))
                /\ \E s \in sections' :
                     /\ s._id = req[r].sectionId
                     /\ s.story = Encrypt(Get(req[r].body.story))
          /\ GetSectionAnswered(r)
             => \A p \in GivenStories :
                   Get(loc'[r].loaded).story = Encrypt(p)
                   => resp'[r].sections[1].story = p]_vars

\* C22 witness: an updateSection given 'a  b' for a section that held another
\* story was answered with 'a  b', and the section holds its ciphertext.
C22_Witness ==
    \E r \in Slots :
        /\ Answered(r)
        /\ req[r].op = "updateSection"
        /\ resp[r].status = 200
        /\ Get(loc[r].loaded).story = Encrypt(StoryA)
        /\ resp[r].sections[1].story = Trim(StoryAB)
        /\ \E s \in sections : s._id = req[r].sectionId /\ s.story = Encrypt(Trim(StoryAB))

\* C23: an updateSection request without a story, by the owner of the book and
\* for a section of it, is answered 200 with the decryption of the stored story,
\* or with the placeholder when it does not decrypt, and the stored story and
\* word count are those the handler loaded.
C23_UpdateWithoutStory ==
    \A r \in Slots :
        /\ Answered(r)
        /\ req[r].op = "updateSection"
        /\ req[r].body.title # None
        /\ req[r].body.story = None
        /\ req[r].body.order = None \/ Get(req[r].body.order) >= 0
        /\ OwnedBook(req[r].bookId, Get(loc[r].user)._id) # {}
        /\ SectionOfBook(req[r].sectionId, req[r].bookId) # {}
        => LET section == Get(SectionOfBook(req[r].sectionId, req[r].bookId))
           IN  /\ resp[r].status = 200
               /\ resp[r].sections[1].story = DecryptOrPlaceholder(section.story)
               /\ loc[r].loaded # None
               /\ section.story = Get(loc[r].loaded).story
               /\ section.wordCount = Get(loc[r].loaded).wordCount

\* C24: when the save of an updateSection that was given an order n goes
\* through, the section has order n and every other section is as it was,
\* whether or not another section of the book has order n.
C24_OrderVerbatim ==
    [][\A r \in Slots :
          UpdateSectionSaved(r) /\ req[r].body.order # None
          => /\ resp'[r].status = 200
             /\ resp'[r].sections[1].order = Get(req[r].body.order)
             /\ \E s \in sections' :
                  s._id = req[r].sectionId /\ s.order = Get(req[r].body.order)
             /\ \A s \in sections : s._id # req[r].sectionId => s \in sections'
             /\ \A s \in sections' : s._id # req[r].sectionId => s \in sections]_vars

\* C24 witness: an updateSection gave a section the order another section of the
\* book has, and both are stored with it.
C24_Witness ==
    \E r \in Slots :
        /\ Answered(r)
        /\ req[r].op = "updateSection"
        /\ resp[r].status = 200
        /\ req[r].body.order # None
        /\ Get(loc[r].loaded).order # Get(req[r].body.order)
        /\ \E s, t \in sections :
             /\ s._id = req[r].sectionId
             /\ t._id # s._id
             /\ t.book = s.book
             /\ s.order = Get(req[r].body.order)
             /\ t.order = s.order

\* The step of slot r is the answer of getBookSections to a lookup that returned.
GetBookSectionsAnswered(r) ==
    /\ pc[r] = "getBookSections_find"
    /\ pc'[r] = "done"
    /\ ~loc'[r].fault

\* C25: getBookSections answers with one entry for each section of the book and
\* none for any other section, in ascending order, and among sections of the
\* same order the one created first comes first.
C25_ListedByOrder ==
    [][\A r \in Slots :
          GetBookSectionsAnswered(r)
          => LET listed == resp'[r].sections
                 ofBook == {s \in sections : s.book = req[r].bookId}
             IN  /\ resp'[r].status = 200
                 /\ Len(listed) = Cardinality(ofBook)
                 /\ {listed[i]._id : i \in DOMAIN listed} = {s._id : s \in ofBook}
                 /\ \A i \in DOMAIN listed :
                      \E s \in ofBook : s._id = listed[i]._id /\ s.order = listed[i].order
                 /\ \A i, j \in DOMAIN listed :
                      i < j => \/ listed[i].order < listed[j].order
                               \/ /\ listed[i].order = listed[j].order
                                  /\ listed[i].createdAt < listed[j].createdAt]_vars

\* C25 witness: a listing in which a section of lower order comes before one
\* created earlier.
C25_Witness ==
    \E r \in Slots :
        /\ Answered(r)
        /\ req[r].op = "getBookSections"
        /\ resp[r].status = 200
        /\ Len(resp[r].sections) = 2
        /\ resp[r].sections[1].createdAt > resp[r].sections[2].createdAt
        /\ resp[r].sections[1].order < resp[r].sections[2].order

\* C25 witness: a listing of two sections that have the same order.
C25_TieWitness ==
    \E r \in Slots :
        /\ Answered(r)
        /\ req[r].op = "getBookSections"
        /\ resp[r].status = 200
        /\ Len(resp[r].sections) = 2
        /\ resp[r].sections[1].order = resp[r].sections[2].order
        /\ resp[r].sections[1].createdAt < resp[r].sections[2].createdAt

\* A body the validation chain of the route refuses: no title or a blank one,
\* and for a section no story or a blank one.
RefusedBody(op, body) ==
    \/ op \in {"createBook", "updateBook", "addSection", "updateSection"}
       /\ (body.title = None \/ Get(body.title) \in {<<>>, <<32>>})
    \/ op \in {"addSection", "updateSection"}
       /\ (body.story = None \/ Get(body.story) \in {<<>>, <<32>>})

C26_RefusedWitness ==
    \E r \in Slots :
        /\ pc[r] = "done"
        /\ loc[r].nextCalls = 1
        /\ req[r].op = "addSection"
        /\ req[r].body.story = None
        /\ resp[r] = Failure(400, "Validation failed")
        /\ OwnedBook(req[r].bookId, Get(loc[r].user)._id) # {}
        /\ sections = {}

\* C27: no stored section has a negative order; a section that addSection
\* stores has an order of at least 1; and the save of an updateSection that was
\* given a negative order is answered 500 'Failed to update section' and leaves
\* every section, the target with its title and story included, as it was.
C27_OrderNeverNegative ==
    [][\A r \in Slots :
          /\ \A s \in sections' : s.order >= 0
          /\ pc[r] = "addSection_save" /\ pc'[r] = "done"
             => \A s \in sections' \ sections : s.order >= 1
          /\ pc[r] = "updateSection_save" /\ pc'[r] = "done"
             /\ req[r].body.order # None /\ Get(req[r].body.order) < 0
             => /\ resp'[r] = Failure(500, "Failed to update section")
                /\ sections' = sections]_vars

\* C27 witness: an updateSection with another title, another story and the order
\* -1 was answered 500 without a failure of the store, and the section is stored
\* as it was loaded.
C27_Witness ==
    \E r \in Slots :
        /\ Answered(r)
        /\ req[r].op = "updateSection"
        /\ req[r].body.order = Some(-1)
        /\ resp[r] = Failure(500, "Failed to update section")
        /\ Get(loc[r].loaded) \in sections
        /\ Get(loc[r].loaded).title # Get(req[r].body.title)
        /\ Get(loc[r].loaded).story # Encrypt(Get(req[r].body.story))

C28_GapWitness ==
    \E s \in sections : sections = {s} /\ s.order = 2

\* C29: the save of an addSection whose book was deleted after the handler's
\* ownership check goes through when the store does not fail: the request is
\* answered 201 and the section is stored for a book the store no longer holds.
C29_AddAfterDeleteBook ==
    [][\A r \in Slots :
          /\ pc[r] = "addSection_save"
          /\ pc'[r] = "done"
          /\ ~loc'[r].fault
          /\ loc[r].book # None
          /\ ~\E b \in books : b._id = req[r].bookId
          => /\ resp'[r].status = 201
             /\ resp'[r].success
             /\ \E s \in sections' \ sections :
                  /\ s._id = resp'[r].sections[1]._id
                  /\ s.book = req[r].bookId
                  /\ Orphaned(s)]_vars

\* C29 witness: an addSection and a deleteBook of the same book were answered
\* 201 and 200, no store call of either failed, and the section of the
\* addSection is stored while its book is not.
C29_Witness ==
    \E r1, r2 \in Slots :
        /\ Answered(r1) /\ Answered(r2)
        /\ req[r1].op = "addSection" /\ req[r2].op = "deleteBook"
        /\ req[r1].bookId = req[r2].bookId
        /\ resp[r1].status = 201 /\ resp[r2].status = 200
        /\ loc[r2].deletedCount = Some(0)
        /\ \E s \in sections :
             /\ s._id = resp[r1].sections[1]._id
             /\ s.book = req[r1].bookId
             /\ Orphaned(s)

\* The section named in the request of slot r is stored for another book than
\* the one the request names.
SectionOfOtherBook(r) ==
    \E s \in sections : s._id = req[r].sectionId /\ s.book # req[r].bookId

\* C30: the section lookup of getSection, updateSection and deleteSection for a
\* book of the requesting user and a section stored for another book answers
\* 404 'Section not found' when the store does not fail, and every section is
\* as it was.
C30_SectionOfItsBook ==
    [][\A r \in Slots :
          /\ pc[r] = "findSection"
          /\ pc'[r] # pc[r]
          /\ ~loc'[r].fault
          /\ SectionOfOtherBook(r)
          => /\ req[r].op \in {"getSection", "updateSection", "deleteSection"}
             /\ OwnedBook(req[r].bookId, Get(loc[r].user)._id) # {}
             /\ pc'[r] = "done"
             /\ resp'[r] = Failure(404, "Section not found")
             /\ sections' = sections]_vars

\* C30 witness: an updateSection for the user's own book and a section of a book
\* of another user was answered 404 'Section not found'.
C30_Witness ==
    \E r \in Slots :
        /\ Answered(r)
        /\ req[r].op = "updateSection"
        /\ resp[r] = Failure(404, "Section not found")
        /\ \E s \in sections, b \in books :
             /\ s._id = req[r].sectionId
             /\ s.book = b._id
             /\ b._id # req[r].bookId
             /\ b.user # Get(loc[r].user)._id

\* C30 witness: a deleteSection for one book of the user and a section of
\* another book of the same user was answered 404 'Section not found'.
C30_SameUserWitness ==
    \E r \in Slots :
        /\ Answered(r)
        /\ req[r].op = "deleteSection"
        /\ resp[r] = Failure(404, "Section not found")
        /\ \E s \in sections, b \in books :
             /\ s._id = req[r].sectionId
             /\ s.book = b._id
             /\ b._id # req[r].bookId
             /\ b.user = Get(loc[r].user)._id

\* C30 witness: a getSection for one book and a section of another book was
\* answered 404 'Section not found'.
C30_GetWitness ==
    \E r \in Slots :
        /\ Answered(r)
        /\ req[r].op = "getSection"
        /\ resp[r] = Failure(404, "Section not found")
        /\ SectionOfOtherBook(r)

====
